---------------------------- MODULE Spec2Model ----------------------------
(***************************************************************************)
(* promptflow: the provider invoker (callLlmApi) and the two workflows     *)
(* (prompt-reply, prompt-comment) that drive it over a platform whose      *)
(* thumbs-down reactions act as processing markers.                        *)
(*                                                                         *)
(*   SpecInvoke  one direct call of callLlmApi on a bounded config list    *)
(*               and a bounded outcome of every credential                 *)
(*   SpecCheck   one direct call of the processed check on an item         *)
(*   SpecMark    the marking calls made directly, and the items fetched    *)
(*               again afterwards                                          *)
(*   SpecParse   one direct call of parseApiConfig on a bounded text       *)
(*   SpecExtract one direct call of extractApiConfigs on bounded comments  *)
(*   Spec        runs of the workflows over a small platform               *)
(***************************************************************************)
EXTENDS Integers, Sequences, FiniteSets, TLC

(***************************************************************************)
(* Bounds of the model.                                                    *)
(***************************************************************************)
MaxConfigs == 2
MaxKeys == 2
MaxRuns == 2

(***************************************************************************)
(* Provider configs, as parseApiConfig builds them.                        *)
(***************************************************************************)
\* the values of config.type: the default, the one callLlmApi serves, and an
\* unrecognized tag that parseApiConfig passes through
Types == {"openai", "gemini", "other"}

ModelNames == <<"A", "B", "C", "D">>

\* the j-th credential of the i-th config: every credential is its own secret
Key(i, j) == (i - 1) * MaxKeys + j

KeysOf(i, n) == [j \in 1 .. n |-> Key(i, j)]

ConfigAt(i, t, n) ==
    [name |-> ModelNames[i], url |-> "endpoint", type |-> t, keys |-> KeysOf(i, n)]

\* one (type, number of keys) choice per list position
Shapes == Types \X (1 .. MaxKeys)

ListOf(sh) == [i \in 1 .. Len(sh) |-> ConfigAt(i, sh[i][1], sh[i][2])]

ConfigLists ==
    UNION { { ListOf(sh) : sh \in [1 .. n -> Shapes] } : n \in 0 .. MaxConfigs }

\* the credentials of a list, and the outcomes the network attempts made with
\* them can have (TRUE: the attempt returns a text, FALSE: it throws)
KeysIn(list) == UNION { { list[i].keys[j] : j \in 1 .. Len(list[i].keys) } : i \in 1 .. Len(list) }

Oracles(list) == [KeysIn(list) -> BOOLEAN]

\* a generated text: the model and credential that produced it; padded says
\* the text still has the whitespace around it that the provider returned
NoText == [model |-> "", key |-> 0, padded |-> FALSE]
NoError == 0

(***************************************************************************)
(* callLlmApi                                                              *)
(***************************************************************************)
\* a filter that keeps every config that is not 'openai'
geminiConfigsLoose(list) == SelectSeq(list, LAMBDA c : c.type # "openai")

\* apiConfigs.filter(c => c.type === 'gemini')
geminiConfigs(list) == SelectSeq(list, LAMBDA c : c.type = "gemini")

\* the loops with the return on success lost: the text is kept and the loops go on
RECURSIVE tryKeysNoReturn(_, _, _, _, _, _, _)
tryKeysNoReturn(cfgs, ok, ci, ki, attempts, lastError, text) ==
    IF ci > Len(cfgs)
    THEN IF text # NoText
         THEN [status |-> "ok", error |-> "", lastError |-> lastError,
               attempts |-> attempts, text |-> text]
         ELSE [status |-> "error", error |-> "AllFailed", lastError |-> lastError,
               attempts |-> attempts, text |-> NoText]
    ELSE IF ki > Len(cfgs[ci].keys)
    THEN tryKeysNoReturn(cfgs, ok, ci + 1, 1, attempts, lastError, text)
    ELSE LET apiKey == cfgs[ci].keys[ki]
             att == Append(attempts,
                        [name |-> cfgs[ci].name, key |-> apiKey, ok |-> ok[apiKey]])
         IN  IF ok[apiKey]
             THEN tryKeysNoReturn(cfgs, ok, ci, ki + 1, att, lastError,
                        [model |-> cfgs[ci].name, key |-> apiKey, padded |-> TRUE])
             ELSE tryKeysNoReturn(cfgs, ok, ci, ki + 1, att, apiKey, text)

\* the loops with a second attempt of a credential whose attempt threw
RECURSIVE tryKeysAgain(_, _, _, _, _, _, _)
tryKeysAgain(cfgs, ok, ci, ki, attempts, lastError, text) ==
    IF ci > Len(cfgs)
    THEN [status |-> "error", error |-> "AllFailed", lastError |-> lastError,
          attempts |-> attempts, text |-> NoText]
    ELSE IF ki > Len(cfgs[ci].keys)
    THEN tryKeysAgain(cfgs, ok, ci + 1, 1, attempts, lastError, text)
    ELSE LET apiKey == cfgs[ci].keys[ki]
             attempt == [name |-> cfgs[ci].name, key |-> apiKey, ok |-> ok[apiKey]]
         IN  IF ok[apiKey]
             THEN [status |-> "ok", error |-> "", lastError |-> lastError,
                   attempts |-> Append(attempts, attempt),
                   text |-> [model |-> cfgs[ci].name, key |-> apiKey, padded |-> TRUE]]
             ELSE tryKeysAgain(cfgs, ok, ci, ki + 1, attempts \o <<attempt, attempt>>,
                               apiKey, text)

\* the two nested loops: the outer over the configs, the inner over
\* config.keys; an attempt that throws sets lastError and the loop goes on, an
\* attempt that succeeds returns its text at once
RECURSIVE tryKeys(_, _, _, _, _, _, _)
tryKeys(cfgs, ok, ci, ki, attempts, lastError, text) ==
    IF ci > Len(cfgs)
    THEN [status |-> "error", error |-> "AllFailed", lastError |-> lastError,
          attempts |-> attempts, text |-> NoText]
    ELSE IF ki > Len(cfgs[ci].keys)
    THEN tryKeys(cfgs, ok, ci + 1, 1, attempts, lastError, text)
    ELSE LET apiKey == cfgs[ci].keys[ki]
             att == Append(attempts,
                        [name |-> cfgs[ci].name, key |-> apiKey, ok |-> ok[apiKey]])
         IN  IF ok[apiKey]
             THEN [status |-> "ok", error |-> "", lastError |-> lastError,
                   attempts |-> att,
                   text |-> [model |-> cfgs[ci].name, key |-> apiKey, padded |-> TRUE]]
             ELSE tryKeys(cfgs, ok, ci, ki + 1, att, apiKey, text)

Thrown(e) ==
    [status |-> "error", error |-> e, lastError |-> NoError,
     attempts |-> <<>>, text |-> NoText]

\* callLlmApi without the check that a gemini config exists
callLlmApiNoKindCheck(apiConfigs, ok) ==
    IF ~apiConfigs.present \/ Len(apiConfigs.list) = 0
    THEN Thrown("NoConfigs")
    ELSE tryKeys(geminiConfigs(apiConfigs.list), ok, 1, 1, <<>>, NoError, NoText)

\* callLlmApi(apiConfigs, prompt): apiConfigs is absent (present = FALSE) or a
\* list; ok is what each credential's attempt will do
callLlmApi(apiConfigs, ok) ==
    IF ~apiConfigs.present \/ Len(apiConfigs.list) = 0
    THEN Thrown("NoConfigs")
    ELSE IF Len(geminiConfigs(apiConfigs.list)) = 0
    THEN Thrown("NoGemini")
    ELSE tryKeys(geminiConfigs(apiConfigs.list), ok, 1, 1, <<>>, NoError, NoText)

\* the two errors that say no provider is available
NoProviderAvailable == {"NoConfigs", "NoGemini"}

(***************************************************************************)
(* The platform the workflows run over                                     *)
(***************************************************************************)
\* the discussions getDiscussions returns and the comments of each
Discussions == <<"d1", "d2">>

DiscussionComments(d) == IF d = "d1" THEN <<"c1", "c2">> ELSE <<>>

\* extractFileUrl(comment.body) ends with '.pdf'
HasPdf(c) == c = "c2"

\* the sources of the first issue labelled prompt+reply: the issue body (t0),
\* then its comments; and the kind extractPrompt finds in each ("" for none)
TemplateSources == <<"t0", "t1", "t2", "t3">>

SourcePrompt(t) ==
    CASE t = "t0" -> "SummaryPrompt"
      [] t = "t1" -> "ReviewPrompt"
      [] t = "t2" -> "SummaryPrompt"
      [] OTHER -> ""

\* the issues labelled prompt+comment, their comments, and the kind
\* extractPrompt finds in each
Issues == <<"i1">>

IssueComments(i) == <<"p1", "p2", "p3">>

CommentPrompt(p) == IF p = "p3" THEN "" ELSE "PoetryPrompt"

\* the config lists getApiConfigs can return in a run
RunConfigLists ==
    { <<>>,
      <<ConfigAt(1, "gemini", 1)>>,
      <<ConfigAt(1, "openai", 1), ConfigAt(2, "gemini", MaxKeys)>> }

\* what the platform stores: the reaction contents on a discussion comment
\* and the '-1' count on an issue or issue comment
DiscussionReactions == { {}, {"THUMBS_DOWN"} }

IssueReactions == {0, 1}

\* the reactions field of a fetched item.  An issue or issue comment carries
\* the reaction counts (reactions['-1']); a discussion comment carries
\* reactions.nodes[].content; either level may be missing from the object
NoReactionsData == [present |-> FALSE]

Count(n) == [present |-> TRUE, minus1 |-> n]

NoNodes == [present |-> TRUE, hasNodes |-> FALSE]

Nodes(contents) == [present |-> TRUE, hasNodes |-> TRUE, nodes |-> contents]

\* the reaction contents of the platform
ReactionContents ==
    {"THUMBS_UP", "THUMBS_DOWN", "LAUGH", "HOORAY", "CONFUSED", "HEART", "ROCKET", "EYES"}

(***************************************************************************)
(* ProcessingTracker                                                       *)
(***************************************************************************)
\* a check that never finds the reaction
hasDiscussionThumbsDownReactionNever(comment) == FALSE

\* a check that asks every reaction to be a thumbs-down
hasDiscussionThumbsDownReactionEvery(comment) ==
    IF ~comment.reactions.present \/ ~comment.reactions.hasNodes THEN FALSE
    ELSE \A reaction \in comment.reactions.nodes : reaction = "THUMBS_DOWN"

\* hasDiscussionThumbsDownReaction(comment)
hasDiscussionThumbsDownReaction(comment) ==
    IF ~comment.reactions.present \/ ~comment.reactions.hasNodes THEN FALSE
    ELSE \E reaction \in comment.reactions.nodes : reaction = "THUMBS_DOWN"

\* a check with >= in place of >
hasThumbsDownReactionOrZero(comment) ==
    IF ~comment.reactions.present THEN FALSE
    ELSE comment.reactions.minus1 >= 0

\* hasThumbsDownReaction(comment)
hasThumbsDownReaction(comment) ==
    IF ~comment.reactions.present THEN FALSE
    ELSE comment.reactions.minus1 > 0

\* the check the workflows apply to an item: a discussion comment is asked
\* with hasDiscussionThumbsDownReaction, an issue or issue comment with
\* hasThumbsDownReaction
isProcessed(item) ==
    IF item.host = "discussion" THEN hasDiscussionThumbsDownReaction(item)
    ELSE hasThumbsDownReaction(item)

\* the sources that are issue comments; the first source is the issue itself
\* and carries issue.id
IsIssueComment(id) ==
    \E i \in 2 .. Len(TemplateSources) : TemplateSources[i] = id

\* addThumbsDownToIssueComment(commentId): reactions.createForIssueComment with
\* comment_id = commentId and content '-1'.  The platform rejects the call
\* when it is unhealthy (ok = FALSE) or when no issue comment has this id;
\* else the comment carries the reaction afterwards
addThumbsDownToIssueComment(commentId, ok, reactions) ==
    IF ok /\ IsIssueComment(commentId)
    THEN [thrown |-> FALSE,
          reactions |-> [reactions EXCEPT ![commentId] = IF @ = 0 THEN 1 ELSE @]]
    ELSE [thrown |-> TRUE, reactions |-> reactions]

\* addThumbsDownToDiscussionComment(commentId): the addReaction mutation with
\* content THUMBS_DOWN
addThumbsDownToDiscussionComment(commentId, ok, reactions) ==
    IF ok
    THEN [thrown |-> FALSE,
          reactions |-> [reactions EXCEPT ![commentId] = @ \cup {"THUMBS_DOWN"}]]
    ELSE [thrown |-> TRUE, reactions |-> reactions]

\* an add that appends the id whether or not it is there
SetAddAlways(ids, id) == Append(ids, id)

\* usedTemplateIds.add(id): a Set keeps one copy, in insertion order
SetAdd(ids, id) ==
    IF \E i \in 1 .. Len(ids) : ids[i] = id THEN ids ELSE Append(ids, id)

RECURSIVE SetOfAdds(_, _)
\* the Set after the adds of a run
SetOfAdds(adds, ids) ==
    IF Len(adds) = 0 THEN ids
    ELSE SetOfAdds(Tail(adds), SetAdd(ids, Head(adds)))

\* the loop without the try/catch: the first rejected call ends it
RECURSIVE markUsedTemplatesAsProcessedNoCatch(_, _, _, _)
markUsedTemplatesAsProcessedNoCatch(ids, ok, reactions, marks) ==
    IF Len(ids) = 0
    THEN [thrown |-> FALSE, reactions |-> reactions, marks |-> marks]
    ELSE LET id == Head(ids)
             r == addThumbsDownToIssueComment(id, ok[id], reactions)
             m == Append(marks, [id |-> id, ok |-> ok[id], thrown |-> r.thrown])
         IN  IF r.thrown
             THEN [thrown |-> TRUE, reactions |-> r.reactions, marks |-> m]
             ELSE markUsedTemplatesAsProcessedNoCatch(Tail(ids), ok, r.reactions, m)

\* markUsedTemplatesAsProcessed(github, usedTemplateIds): one
\* addThumbsDownToIssueComment per id, each in its own try/catch
RECURSIVE markUsedTemplatesAsProcessed(_, _, _, _)
markUsedTemplatesAsProcessed(ids, ok, reactions, marks) ==
    IF Len(ids) = 0
    THEN [thrown |-> FALSE, reactions |-> reactions, marks |-> marks]
    ELSE LET id == Head(ids)
             r == addThumbsDownToIssueComment(id, ok[id], reactions)
             m == Append(marks, [id |-> id, ok |-> ok[id], thrown |-> r.thrown])
         IN  markUsedTemplatesAsProcessed(Tail(ids), ok, r.reactions, m)

(***************************************************************************)
(* loadPromptTemplates                                                     *)
(***************************************************************************)
HasType(templates, type) == \E i \in 1 .. Len(templates) : templates[i].type = type

\* a list of templates that takes every template found, whatever its type
SetTemplateAppend(templates, type, id) == Append(templates, [type |-> type, id |-> id])

\* templates[prompt.type] = {content, id}: a new key goes last, an existing
\* key keeps its place and takes the new value
SetTemplate(templates, type, id) ==
    IF HasType(templates, type)
    THEN [i \in 1 .. Len(templates) |->
            IF templates[i].type = type THEN [type |-> type, id |-> id]
            ELSE templates[i]]
    ELSE Append(templates, [type |-> type, id |-> id])

RECURSIVE loadFrom(_, _, _)
\* the loop over the sources: a source with a thumbs-down or without a prompt
\* is passed over
loadFrom(sources, reactions, templates) ==
    IF Len(sources) = 0 THEN templates
    ELSE LET source == [id |-> Head(sources), reactions |-> Count(reactions[Head(sources)])]
         IN  IF hasThumbsDownReaction(source) \/ SourcePrompt(source.id) = ""
             THEN loadFrom(Tail(sources), reactions, templates)
             ELSE loadFrom(Tail(sources), reactions,
                           SetTemplate(templates, SourcePrompt(source.id), source.id))

loadPromptTemplates(reactions) == loadFrom(TemplateSources, reactions, <<>>)

\* on: schedule, workflow_dispatch
Triggers == {"schedule", "workflow_dispatch"}

\* generatedText.trim()
trim(text) == [text EXCEPT !.padded = FALSE]

\* a value handed to the client: an id, or a text
IdArg(id) == [isText |-> FALSE, id |-> id, text |-> NoText]

TextArg(text) == [isText |-> TRUE, id |-> "", text |-> text]

\* addDiscussionReply(commentId, body): the input of the mutation
\* addDiscussionCommentReply
addDiscussionReply(commentId, body) == [commentId |-> commentId, body |-> body]

\* addDiscussionComment(discussionId, body): the input of the mutation
\* addDiscussionComment
addDiscussionComment(discussionId, body) == [discussionId |-> discussionId, body |-> body]

\* github.addDiscussionReply(...args): the two parameters of the function
\* take the first two arguments in order, an argument behind them is dropped
callAddDiscussionReply(args) == addDiscussionReply(args[1], args[2])

(***************************************************************************)
(* parseApiConfig.  A text is a sequence of characters (one-character      *)
(* strings); FullWidthColon stands for the character U+FF1A.               *)
(***************************************************************************)
FullWidthColon == "U+FF1A"

Colons == {":", FullWidthColon}

\* the characters '.' does not match
LineTerminators == {"\n", "\r"}

\* the characters String.prototype.trim removes
WhiteSpace == {" ", "\t", "\n", "\r"}

Quotes == {"'", "\""}

UpperCase == <<"A", "B", "C", "D", "E", "F", "G", "H", "I", "J", "K", "L", "M",
               "N", "O", "P", "Q", "R", "S", "T", "U", "V", "W", "X", "Y", "Z">>

LowerCase == <<"a", "b", "c", "d", "e", "f", "g", "h", "i", "j", "k", "l", "m",
               "n", "o", "p", "q", "r", "s", "t", "u", "v", "w", "x", "y", "z">>

toLowerCaseChar(c) ==
    IF \E i \in 1 .. Len(UpperCase) : UpperCase[i] = c
    THEN LowerCase[CHOOSE i \in 1 .. Len(UpperCase) : UpperCase[i] = c]
    ELSE c

\* s.toLowerCase()
toLowerCase(s) == [i \in 1 .. Len(s) |-> toLowerCaseChar(s[i])]

RECURSIVE trimStart(_)
trimStart(s) ==
    IF Len(s) > 0 /\ Head(s) \in WhiteSpace THEN trimStart(Tail(s)) ELSE s

RECURSIVE trimEnd(_)
trimEnd(s) ==
    IF Len(s) > 0 /\ s[Len(s)] \in WhiteSpace THEN trimEnd(SubSeq(s, 1, Len(s) - 1)) ELSE s

\* s.trim()
trimChars(s) == trimEnd(trimStart(s))

\* s.includes(w)
includes(s, w) ==
    \E i \in 1 .. Len(s) - Len(w) + 1 : SubSeq(s, i, i + Len(w) - 1) = w

\* value.replace(/\r/g, '')
removeCR(s) == SelectSeq(s, LAMBDA c : c # "\r")

\* s.replace(/^['"]|['"]$/g, ''): a quote at the start is removed, and a quote
\* at the end is removed, each on its own
stripQuotes(s) ==
    LET t == IF Len(s) > 0 /\ Head(s) \in Quotes THEN Tail(s) ELSE s
    IN  IF Len(t) > 0 /\ t[Len(t)] \in Quotes THEN SubSeq(t, 1, Len(t) - 1) ELSE t

RECURSIVE split(_, _)
\* text.split('\n'), cur being the line collected so far
split(text, cur) ==
    IF Len(text) = 0 THEN <<cur>>
    ELSE IF Head(text) = "\n" THEN <<cur>> \o split(Tail(text), <<>>)
    ELSE split(Tail(text), Append(cur, Head(text)))

FirstColon(line) ==
    CHOOSE i \in 1 .. Len(line) :
        /\ line[i] \in Colons
        /\ \A j \in 1 .. i - 1 : line[j] \notin Colons

\* line.match(/^(.*?)[:：](.*?)$/): the first group is lazy, so the line is cut
\* at its first colon; '.' matches no line terminator and '$' is the end of
\* the line, so a line with a carriage return in it does not match
lineMatch(line) ==
    IF \/ \A i \in 1 .. Len(line) : line[i] \notin Colons
       \/ \E i \in 1 .. Len(line) : line[i] \in LineTerminators
    THEN [matched |-> FALSE, key |-> <<>>, value |-> <<>>]
    ELSE [matched |-> TRUE,
          key |-> SubSeq(line, 1, FirstColon(line) - 1),
          value |-> SubSeq(line, FirstColon(line) + 1, Len(line))]

Word_name == <<"n", "a", "m", "e">>
Word_url == <<"u", "r", "l">>
Word_key == <<"k", "e", "y">>
Word_type == <<"t", "y", "p", "e">>
Word_openai == <<"o", "p", "e", "n", "a", "i">>
Word_gemini == <<"g", "e", "m", "i", "n", "i">>

\* const config = {name: '', url: '', keys: [], type: 'openai'}
EmptyConfig == [name |-> <<>>, url |-> <<>>, keys |-> <<>>, type |-> Word_openai]

\* the body of the loop with the test for 'key' ahead of the test for 'name'
parseLineKeyFirst(config, line) ==
    LET match == lineMatch(line)
        trimmedKey == toLowerCase(trimChars(match.key))
        trimmedValue == stripQuotes(trimChars(removeCR(match.value)))
    IN  IF ~match.matched THEN config
        ELSE IF includes(trimmedKey, Word_key)
        THEN [config EXCEPT !.keys = Append(@, trimmedValue)]
        ELSE IF includes(trimmedKey, Word_name)
        THEN [config EXCEPT !.name = trimmedValue]
        ELSE IF includes(trimmedKey, Word_url)
        THEN [config EXCEPT !.url = trimmedValue]
        ELSE IF includes(trimmedKey, Word_type)
        THEN [config EXCEPT !.type = toLowerCase(trimmedValue)]
        ELSE config

\* the body of the loop with a last branch that takes any other line as a
\* credential
parseLineElseKey(config, line) ==
    LET match == lineMatch(line)
        trimmedKey == toLowerCase(trimChars(match.key))
        trimmedValue == stripQuotes(trimChars(removeCR(match.value)))
    IN  IF ~match.matched THEN [config EXCEPT !.keys = Append(@, line)]
        ELSE IF includes(trimmedKey, Word_name)
        THEN [config EXCEPT !.name = trimmedValue]
        ELSE IF includes(trimmedKey, Word_url)
        THEN [config EXCEPT !.url = trimmedValue]
        ELSE IF includes(trimmedKey, Word_key)
        THEN [config EXCEPT !.keys = Append(@, trimmedValue)]
        ELSE IF includes(trimmedKey, Word_type)
        THEN [config EXCEPT !.type = toLowerCase(trimmedValue)]
        ELSE [config EXCEPT !.keys = Append(@, trimmedValue)]

\* the body of the loop over the lines
parseLine(config, line) ==
    LET match == lineMatch(line)
        trimmedKey == toLowerCase(trimChars(match.key))
        trimmedValue == stripQuotes(trimChars(removeCR(match.value)))
    IN  IF ~match.matched THEN config
        ELSE IF includes(trimmedKey, Word_name)
        THEN [config EXCEPT !.name = trimmedValue]
        ELSE IF includes(trimmedKey, Word_url)
        THEN [config EXCEPT !.url = trimmedValue]
        ELSE IF includes(trimmedKey, Word_key)
        THEN [config EXCEPT !.keys = Append(@, trimmedValue)]
        ELSE IF includes(trimmedKey, Word_type)
        THEN [config EXCEPT !.type = toLowerCase(trimmedValue)]
        ELSE config

RECURSIVE parseLines(_, _)
parseLines(lines, config) ==
    IF Len(lines) = 0 THEN config
    ELSE parseLines(Tail(lines), parseLine(config, Head(lines)))

\* parseApiConfig(commentBody)
parseApiConfig(commentBody) == parseLines(split(commentBody, <<>>), EmptyConfig)

\* the config after each line of the text: the history of the loop
parseHistory(commentBody) ==
    LET lines == split(commentBody, <<>>)
    IN  [i \in 0 .. Len(lines) |-> parseLines(SubSeq(lines, 1, i), EmptyConfig)]

(***************************************************************************)
(* extractApiConfigs                                                       *)
(***************************************************************************)
\* a test that does not ask for the url
keepsWithoutUrl(config) == config.name # <<>> /\ Len(config.keys) > 0

\* config.url && config.name && config.keys.length > 0
keeps(config) == config.url # <<>> /\ config.name # <<>> /\ Len(config.keys) > 0

RECURSIVE insertByCreation(_, _)
\* the place of a comment in the sorted copy: after every comment that is not
\* newer (the sort is stable)
insertByCreation(sorted, comment) ==
    IF Len(sorted) = 0 THEN <<comment>>
    ELSE IF comment.created_at < Head(sorted).created_at
    THEN <<comment>> \o sorted
    ELSE <<Head(sorted)>> \o insertByCreation(Tail(sorted), comment)

\* a copy left in the order of the input list
sortByCreationNone(comments, sorted) == sorted \o comments
RECURSIVE sortByCreation(_, _)
\* [...comments].sort((a, b) => new Date(a.created_at) - new Date(b.created_at))
sortByCreation(comments, sorted) ==
    IF Len(comments) = 0 THEN sorted
    ELSE sortByCreation(Tail(comments), insertByCreation(sorted, Head(comments)))

RECURSIVE extractFrom(_, _)
extractFrom(sortedComments, configs) ==
    IF Len(sortedComments) = 0 THEN configs
    ELSE LET comment == Head(sortedComments)
             config == parseApiConfig(comment.body)
         IN  IF hasThumbsDownReaction(comment)
             THEN extractFrom(Tail(sortedComments), configs)
             ELSE IF keeps(config)
             THEN extractFrom(Tail(sortedComments), Append(configs, config))
             ELSE extractFrom(Tail(sortedComments), configs)

\* extractApiConfigs(comments)
extractApiConfigs(comments) == extractFrom(sortByCreation(comments, <<>>), <<>>)

(***************************************************************************)
(* extractPrompt                                                           *)
(***************************************************************************)
Digits == {"0", "1", "2", "3", "4", "5", "6", "7", "8", "9"}

\* the characters \w matches
WordChars ==
    { UpperCase[i] : i \in 1 .. Len(UpperCase) }
    \cup { LowerCase[i] : i \in 1 .. Len(LowerCase) }
    \cup Digits \cup {"_"}

Word_Prompt == <<"P", "r", "o", "m", "p", "t">>

RECURSIVE wordPrefix(_)
\* the length of the longest run of \w characters the text starts with
wordPrefix(s) ==
    IF Len(s) > 0 /\ Head(s) \in WordChars THEN 1 + wordPrefix(Tail(s)) ELSE 0

\* return null
NoPrompt == [matched |-> FALSE, type |-> <<>>, content |-> <<>>]

\* the record returned with the content as the pattern captured it
extractPromptUntrimmed(commentBody) ==
    LET k == wordPrefix(commentBody)
    IN  IF /\ k > Len(Word_Prompt)
           /\ SubSeq(commentBody, k - Len(Word_Prompt) + 1, k) = Word_Prompt
           /\ k < Len(commentBody)
           /\ commentBody[k + 1] \in Colons
        THEN [matched |-> TRUE,
              type |-> SubSeq(commentBody, 1, k),
              content |-> SubSeq(commentBody, k + 2, Len(commentBody))]
        ELSE NoPrompt

\* commentBody.match(/^(\w+Prompt)[:：]([\s\S]*)$/): the colon is no \w
\* character, so the first group can only be the whole run of \w characters
\* the text starts with; it must end in 'Prompt' after at least one other
\* character and be followed by a colon; the second group is the rest
extractPrompt(commentBody) ==
    LET k == wordPrefix(commentBody)
    IN  IF /\ k > Len(Word_Prompt)
           /\ SubSeq(commentBody, k - Len(Word_Prompt) + 1, k) = Word_Prompt
           /\ k < Len(commentBody)
           /\ commentBody[k + 1] \in Colons
        THEN [matched |-> TRUE,
              type |-> SubSeq(commentBody, 1, k),
              content |-> trimChars(SubSeq(commentBody, k + 2, Len(commentBody)))]
        ELSE NoPrompt

(***************************************************************************)
(* fillTemplate.  The two characters between the braces of the placeholder *)
(* are U+6587 and U+7AE0.                                                  *)
(***************************************************************************)
\* '{{article}}', a text a template can hold
PlaceholderArticle ==
    <<"{", "{", "a", "r", "t", "i", "c", "l", "e", "}", "}">>

\* the placeholder as the design names it
PlaceholderAsDesigned == PlaceholderArticle

\* '{{文章}}'
Placeholder == <<"{", "{", "U+6587", "U+7AE0", "}", "}">>

\* the character U+0060 (the grave accent)
GraveAccent == "U+0060"

\* s.indexOf(w), counted from 1; 0 when w is not in s
indexOf(s, w) ==
    IF includes(s, w)
    THEN CHOOSE i \in 1 .. Len(s) - Len(w) + 1 :
            /\ SubSeq(s, i, i + Len(w) - 1) = w
            /\ \A j \in 1 .. i - 1 : SubSeq(s, j, j + Len(w) - 1) # w
    ELSE 0

RECURSIVE expand(_, _, _, _)
\* what String.prototype.replace inserts for a replacement text: '$$' stands
\* for '$', '$&' for the matched text, '$' and a grave accent for the text before the match and
\* '$'' for the text after it; a '$' followed by anything else stands for
\* itself (a text pattern has no groups)
expand(replacement, matched, before, after) ==
    IF Len(replacement) = 0 THEN <<>>
    ELSE IF Head(replacement) = "$" /\ Len(replacement) > 1
    THEN LET c == replacement[2]
             rest == SubSeq(replacement, 3, Len(replacement))
         IN  IF c = "$" THEN <<"$">> \o expand(rest, matched, before, after)
             ELSE IF c = "&" THEN matched \o expand(rest, matched, before, after)
             ELSE IF c = GraveAccent THEN before \o expand(rest, matched, before, after)
             ELSE IF c = "'" THEN after \o expand(rest, matched, before, after)
             ELSE <<"$">> \o expand(Tail(replacement), matched, before, after)
    ELSE <<Head(replacement)>> \o expand(Tail(replacement), matched, before, after)

\* s.replace(pattern, replacement) with a text pattern: the first occurrence
\* only
replace(s, pattern, replacement) ==
    LET i == indexOf(s, pattern)
        before == SubSeq(s, 1, i - 1)
        after == SubSeq(s, i + Len(pattern), Len(s))
    IN  IF i = 0 THEN s
        ELSE before \o expand(replacement, pattern, before, after) \o after

\* fillTemplate(template, content)
fillTemplate(template, content) ==
    IF ~includes(template, Placeholder)
    THEN replace(template \o <<" ">> \o Placeholder, Placeholder, content)
    ELSE replace(template, Placeholder, content)

(***************************************************************************)
(* extractGeneratedText and the attempt of callLlmApi that calls it (the   *)
(* api-client that still has the function, which prompt-comment.js imports)*)
(***************************************************************************)
\* a field that is not in the object
Missing == [present |-> FALSE, list |-> <<>>]

Field(list) == [present |-> TRUE, list |-> list]

Undefined == [present |-> FALSE, value |-> ""]

Value(v) == [present |-> TRUE, value |-> v]

\* a body with neither candidates nor choices
EmptyResponse == [candidates |-> Missing, choices |-> Missing]

\* what extractGeneratedText returns: a text, or JSON.stringify(apiResponse)
Text(v) == [kind |-> "text", text |-> v, raw |-> EmptyResponse]

Stringified(apiResponse) == [kind |-> "json", text |-> "", raw |-> apiResponse]

\* a.b || c || '': the first value that is there and is not the empty text
FirstTruthy(values) ==
    IF \E i \in 1 .. Len(values) : values[i].present /\ values[i].value # ""
    THEN LET i == CHOOSE i \in 1 .. Len(values) :
                     /\ values[i].present /\ values[i].value # ""
                     /\ \A j \in 1 .. i - 1 :
                           ~(values[j].present /\ values[j].value # "")
         IN  values[i].value
    ELSE ""

\* extractGeneratedText(apiResponse, type); a TypeError raised on the way (a
\* candidate without content, a choice that is null) lands in the catch, which
\* returns JSON.stringify(apiResponse)
extractGeneratedText(apiResponse, type) ==
    IF type = "gemini"
    THEN IF apiResponse.candidates.present /\ Len(apiResponse.candidates.list) > 0
         THEN LET candidate == apiResponse.candidates.list[1]
              IN  IF candidate.content THEN Text(candidate.text)
                  ELSE Stringified(apiResponse)
         ELSE Stringified(apiResponse)
    ELSE IF apiResponse.choices.present /\ Len(apiResponse.choices.list) > 0
         THEN LET choice == apiResponse.choices.list[1]
              IN  IF choice.object
                  THEN Text(FirstTruthy(<<choice.content, choice.text>>))
                  ELSE Stringified(apiResponse)
         ELSE Stringified(apiResponse)

\* no attempt made
NoAttempt == [returned |-> FALSE, result |-> Text(""), lastError |-> ""]

\* the body of the try of one attempt once axios.post has resolved with a 2xx
\* response: return extractGeneratedText(response.data, config.type)
attempt(apiResponse, type) ==
    [returned |-> TRUE, result |-> extractGeneratedText(apiResponse, type),
     lastError |-> ""]

(***************************************************************************)
(* The request callLlmApi hands to model.generateContent in one attempt    *)
(***************************************************************************)
\* the alphabet of Buffer.toString("base64")
Base64Chars ==
    <<"A", "B", "C", "D", "E", "F", "G", "H", "I", "J", "K", "L", "M",
       "N", "O", "P", "Q", "R", "S", "T", "U", "V", "W", "X", "Y", "Z",
       "a", "b", "c", "d", "e", "f", "g", "h", "i", "j", "k", "l", "m",
       "n", "o", "p", "q", "r", "s", "t", "u", "v", "w", "x", "y", "z",
       "0", "1", "2", "3", "4", "5", "6", "7", "8", "9", "+", "/">>

RECURSIVE toBase64(_)
\* fileBuffer.toString("base64"): three bytes give four characters, a rest of
\* one or two bytes is filled up with '='
toBase64(bytes) ==
    IF Len(bytes) = 0 THEN <<>>
    ELSE IF Len(bytes) = 1
    THEN <<Base64Chars[(bytes[1] \div 4) + 1],
           Base64Chars[(bytes[1] % 4) * 16 + 1], "=", "=">>
    ELSE IF Len(bytes) = 2
    THEN <<Base64Chars[(bytes[1] \div 4) + 1],
           Base64Chars[(bytes[1] % 4) * 16 + (bytes[2] \div 16) + 1],
           Base64Chars[(bytes[2] % 16) * 4 + 1], "=">>
    ELSE <<Base64Chars[(bytes[1] \div 4) + 1],
           Base64Chars[(bytes[1] % 4) * 16 + (bytes[2] \div 16) + 1],
           Base64Chars[(bytes[2] % 16) * 4 + (bytes[3] \div 64) + 1],
           Base64Chars[(bytes[3] % 64) + 1]>>
         \o toBase64(SubSeq(bytes, 4, Len(bytes)))

\* { text: prompt }
TextPart(prompt) ==
    [kind |-> "text", text |-> prompt, data |-> <<>>, mimeType |-> ""]

\* { inlineData: { data, mimeType } }
InlineDataPart(data, mimeType) ==
    [kind |-> "inlineData", text |-> "", data |-> data, mimeType |-> mimeType]

\* promptParts with the file pushed whatever was handed in
promptPartsAlways(prompt, fileBuffer, mimeType) ==
    <<TextPart(prompt), InlineDataPart(toBase64(fileBuffer.list), mimeType.value)>>

\* promptParts: the text, and the file when fileBuffer && mimeType (a Buffer is
\* truthy whatever its length, the empty text is not)
promptParts(prompt, fileBuffer, mimeType) ==
    <<TextPart(prompt)>>
    \o IF fileBuffer.present /\ mimeType.present /\ mimeType.value # ""
       THEN <<InlineDataPart(toBase64(fileBuffer.list), mimeType.value)>>
       ELSE <<>>

\* the argument of model.generateContent
generateContentRequest(prompt, fileBuffer, mimeType) ==
    [contents |-> <<[role |-> "user",
                     parts |-> promptParts(prompt, fileBuffer, mimeType)]>>]

\* no request was built
NoRequest == [contents |-> <<>>]

(***************************************************************************)
(* retry                                                                   *)
(***************************************************************************)
\* an argument the caller left out
NotGiven == [given |-> FALSE, value |-> 0]

Given(v) == [given |-> TRUE, value |-> v]

\* a parameter with a default value
Default(argument, value) == IF argument.given THEN argument.value ELSE value

\* maxRetries = 3
DefaultMaxRetries == 3

\* initialDelay = 1000
DefaultInitialDelay == 1000

\* lastError before any catch: undefined
NoRejection == 0

\* the error the k-th call of fn rejects with
Rejection(k) == k

\* what retry still has to return
NoOutcome == [status |-> "pending", value |-> 0]

\* return await fn(): the value the k-th call resolved with
Resolved(k) == [status |-> "returned", value |-> k]

\* throw lastError
ThrownLast(lastError) == [status |-> "thrown", value |-> lastError]

\* initialDelay * Math.pow(2, i)
delay(initialDelay, i) == initialDelay * 2 ^ i

(***************************************************************************)
(* State                                                                   *)
(***************************************************************************)
VARIABLES
    invConfigs,     \* direct call: the apiConfigs argument
    invOracle,      \* direct call: the outcome of each credential's attempt
    invPc,          \* direct call: "ready" before the call, "done" after it
    invResult,      \* direct call: what callLlmApi returned or threw
    chkItem,        \* direct call: the item handed to the processed check
    chkResult,      \* direct call: what the check returned
    mkAdds,         \* direct call: the ids added to usedTemplateIds, in order
    mkPc,           \* direct call: "ready", "marked" (markUsedTemplatesAsProcessed
                    \* returned or threw), "checked" (the items were fetched again)
    mkCalls,        \* direct call: the reaction-creation calls made
    mkThrown,       \* direct call: the marking calls that threw to their caller
    mkBefore,       \* direct call: the items that carried the thumbs-down at the
                    \* start or after a step
    mkSeen,         \* direct call: the processed check of every item fetched again
    cfgText,        \* direct call: the commentBody handed to parseApiConfig
    cfgPc,          \* direct call: "ready" before the call, "done" after it
    cfgResult,      \* direct call: the config after each line; the last is returned
    exComments,     \* direct call: the comments handed to extractApiConfigs
    exPc,           \* direct call: "ready" before the call, "done" after it
    exResult,       \* direct call: the configs extractApiConfigs returned
    epBody,         \* direct call: the commentBody handed to extractPrompt
    epPc,           \* direct call: "ready" before the call, "done" after it
    epResult,       \* direct call: what extractPrompt returned
    ftTemplate,     \* direct call: the template handed to fillTemplate
    ftContent,      \* direct call: the content handed to fillTemplate
    ftPc,           \* direct call: "ready" before the call, "done" after it
    ftResult,       \* direct call: what fillTemplate returned
    gtType,         \* direct call: the type of the config of the attempt
    gtResponse,     \* direct call: the body of the 2xx response of the attempt
    gtPc,           \* direct call: "ready" before the attempt, "done" after it
    gtResult,       \* direct call: how the attempt ended
    rqPrompt,       \* direct call: the prompt of the attempt
    rqFileBuffer,   \* direct call: the fileBuffer argument of callLlmApi
    rqMimeType,     \* direct call: the mimeType argument of callLlmApi
    rqPc,           \* direct call: "ready" before the request is built, "done" after
    rqRequest,      \* direct call: the argument of model.generateContent
    rtFn,           \* direct call: whether the k-th call of fn resolves
    rtMaxRetries,   \* direct call: the maxRetries argument of retry
    rtInitialDelay, \* direct call: the initialDelay argument of retry
    rtI,            \* direct call: the loop variable i of retry
    rtPc,           \* direct call: "loop" at the loop test, "caught" in the catch
                    \* before the sleep, "returned", "thrown"
    rtCalls,        \* direct call: the calls of fn made, by number
    rtSleeps,       \* direct call: the delays slept, in order
    rtLastError,    \* direct call: lastError
    rtResult,       \* direct call: what retry returned or threw
    trPc,           \* triggers: where the run of each trigger is: "waiting",
                    \* "comments", "templates", "ended"
    trIdx,          \* triggers: each run's position in the comments
    trPosts,        \* triggers: the replies posted, with the run that posted
    workflowType,   \* the workflow-type input: "prompt-reply" or "prompt-comment"
    setup,          \* platform: whether the repository input has a '/', an issue
                    \* labelled api exists, an issue labelled prompt+reply exists
    apiConfigs,     \* platform: what getApiConfigs returns
    cmtReactions,   \* platform: reactions of each discussion comment
    srcReactions,   \* platform: reactions['-1'] of each template source
    pcReactions,    \* platform: reactions['-1'] of each prompt+comment issue comment
    titled,         \* platform: number of discussions titled like issue i1
    pc,             \* where the run is: "idle", "discussions", "comments",
                    \* "templates", "issues", "issueComments"
    runs,           \* number of runs started
    promptTemplates,\* run: the loaded templates, in Object.entries order
    usedTemplateIds,\* run: ids of the templates a reply was posted with
    dIdx,           \* run: position in the discussions (or issues)
    comments,       \* run: the comments fetched for the current discussion (or issue)
    cIdx,           \* run: position in comments
    context,        \* run: contextContent of the current comment
    tIdx,           \* run: position in promptTemplates
    allTemplatesSucceeded,
    calls,          \* log: the callLlmApi calls of this run
    posts,          \* log: the replies and comments the platform accepted in this run
    failed,         \* log: the work items with a failure in this run
    skipped,        \* log: the work items this run read as marked
    markCalls,      \* log: the reaction-creation calls of this run
    prevDone,       \* log: the work items the previous run posted for without a failure
    failure         \* log: the message handleError gave to core.setFailed ("" when
                    \* it was not called)

callVars == <<invConfigs, invOracle, invPc, invResult>>

checkVars == <<chkItem, chkResult>>

markVars == <<mkAdds, mkPc, mkCalls, mkThrown, mkBefore, mkSeen>>

parseVars == <<cfgText, cfgPc, cfgResult>>

extractVars == <<exComments, exPc, exResult>>

promptVars == <<epBody, epPc, epResult>>

fillVars == <<ftTemplate, ftContent, ftPc, ftResult>>

responseVars == <<gtType, gtResponse, gtPc, gtResult>>

requestVars == <<rqPrompt, rqFileBuffer, rqMimeType, rqPc, rqRequest>>

retryVars == <<rtFn, rtMaxRetries, rtInitialDelay, rtI, rtPc, rtCalls, rtSleeps,
               rtLastError, rtResult>>

\* the variables of the direct calls of the helpers
helperVars == <<promptVars, fillVars, responseVars, requestVars, retryVars>>

triggerVars == <<trPc, trIdx, trPosts>>

\* the variables of the direct calls and of the triggers
invVars == <<callVars, checkVars, markVars, parseVars, extractVars, helperVars,
             triggerVars>>

platformVars == <<workflowType, setup, apiConfigs, cmtReactions, srcReactions, pcReactions>>

loopVars == <<dIdx, comments, cIdx, context, tIdx, allTemplatesSucceeded>>

logVars == <<calls, posts, failed, skipped, markCalls>>

runVars == <<platformVars, titled, pc, runs, promptTemplates, usedTemplateIds,
             loopVars, logVars, prevDone, failure>>

vars == <<invVars, runVars>>

Absent == [present |-> FALSE, list |-> <<>>]

InvokeInputs ==
    {Absent} \cup { [present |-> TRUE, list |-> l] : l \in ConfigLists }

NoReactions(S) == [x \in S |-> 0]

Range(seq) == { seq[i] : i \in 1 .. Len(seq) }

DComments == UNION { Range(DiscussionComments(Discussions[i])) : i \in 1 .. Len(Discussions) }

PComments == UNION { Range(IssueComments(Issues[i])) : i \in 1 .. Len(Issues) }

\* a run that has not started
RunIdle ==
    /\ pc = "idle"
    /\ runs = 0
    /\ promptTemplates = <<>>
    /\ usedTemplateIds = {}
    /\ dIdx = 1 /\ comments = <<>> /\ cIdx = 1 /\ context = "" /\ tIdx = 1
    /\ allTemplatesSucceeded = TRUE
    /\ calls = <<>> /\ posts = <<>> /\ failed = {} /\ skipped = {} /\ markCalls = <<>>
    /\ prevDone = {}
    /\ failure = ""

\* a platform on which nothing is marked and every precondition of a run holds
SetupOk == [repo |-> TRUE, apiIssue |-> TRUE, templateIssue |-> TRUE]

PlatformIdle ==
    /\ workflowType = "prompt-reply"
    /\ setup = SetupOk
    /\ apiConfigs = <<>>
    /\ cmtReactions = [c \in DComments |-> {}]
    /\ srcReactions = NoReactions(Range(TemplateSources))
    /\ pcReactions = NoReactions(PComments)
    /\ titled = 0

\* the direct calls that are not made
CallIdle ==
    /\ invConfigs = Absent
    /\ invOracle = <<>>
    /\ invPc = "ready"
    /\ invResult = Thrown("")

CheckIdle ==
    /\ chkItem = [host |-> "issue", reactions |-> NoReactionsData]
    /\ chkResult = [done |-> FALSE, value |-> FALSE]

MarkIdle ==
    /\ mkAdds = <<>>
    /\ mkPc = "ready"
    /\ mkCalls = <<>>
    /\ mkThrown = {}
    /\ mkBefore = {}
    /\ mkSeen = <<>>

ParseIdle ==
    /\ cfgText = <<>>
    /\ cfgPc = "ready"
    /\ cfgResult = <<>>

ExtractIdle ==
    /\ exComments = <<>>
    /\ exPc = "ready"
    /\ exResult = <<>>

PromptIdle ==
    /\ epBody = <<>>
    /\ epPc = "ready"
    /\ epResult = NoPrompt

FillIdle ==
    /\ ftTemplate = <<>>
    /\ ftContent = <<>>
    /\ ftPc = "ready"
    /\ ftResult = <<>>

ResponseIdle ==
    /\ gtType = "openai"
    /\ gtResponse = EmptyResponse
    /\ gtPc = "ready"
    /\ gtResult = NoAttempt

\* no trigger has fired
TriggerIdle ==
    /\ trPc = [r \in Triggers |-> "waiting"]
    /\ trIdx = [r \in Triggers |-> 1]
    /\ trPosts = <<>>

RequestIdle ==
    /\ rqPrompt = ""
    /\ rqFileBuffer = Missing
    /\ rqMimeType = Undefined
    /\ rqPc = "ready"
    /\ rqRequest = NoRequest

RetryIdle ==
    /\ rtFn = <<>>
    /\ rtMaxRetries = NotGiven
    /\ rtInitialDelay = NotGiven
    /\ rtI = 0
    /\ rtPc = "loop"
    /\ rtCalls = <<>>
    /\ rtSleeps = <<>>
    /\ rtLastError = NoRejection
    /\ rtResult = NoOutcome

HelpersIdle ==
    /\ PromptIdle /\ FillIdle /\ ResponseIdle /\ TriggerIdle
    /\ RequestIdle /\ RetryIdle

InitInvoke ==
    /\ invConfigs \in InvokeInputs
    /\ invOracle \in Oracles(invConfigs.list)
    /\ invPc = "ready"
    /\ invResult = Thrown("")
    /\ CheckIdle /\ MarkIdle /\ ParseIdle /\ ExtractIdle /\ HelpersIdle
    /\ PlatformIdle
    /\ RunIdle

\* one call of callLlmApi
Invoke ==
    /\ invPc = "ready"
    /\ invResult' = callLlmApi(invConfigs, invOracle)
    /\ invPc' = "done"
    /\ UNCHANGED <<invConfigs, invOracle, checkVars, markVars, parseVars,
                   extractVars, helperVars, triggerVars, runVars>>

NextInvoke == Invoke

SpecInvoke == InitInvoke /\ [][NextInvoke]_vars

(***************************************************************************)
(* SpecCheck: one direct call of the processed check on an item            *)
(***************************************************************************)
MaxCount == 2

\* the items a caller can hand to the check: the reactions field is missing,
\* or holds what the platform returns for the host
CheckInputs ==
    { [host |-> "issue", reactions |-> r] :
        r \in {NoReactionsData} \cup { Count(n) : n \in 0 .. MaxCount } }
    \cup
    { [host |-> "discussion", reactions |-> r] :
        r \in {NoReactionsData, NoNodes} \cup { Nodes(S) : S \in SUBSET ReactionContents } }

InitCheck ==
    /\ chkItem \in CheckInputs
    /\ chkResult = [done |-> FALSE, value |-> FALSE]
    /\ CallIdle /\ MarkIdle /\ ParseIdle /\ ExtractIdle /\ HelpersIdle
    /\ PlatformIdle
    /\ RunIdle

Check ==
    /\ ~chkResult.done
    /\ chkResult' = [done |-> TRUE, value |-> isProcessed(chkItem)]
    /\ UNCHANGED <<chkItem, callVars, markVars, parseVars, extractVars, helperVars, triggerVars,
                   runVars>>

NextCheck == Check

SpecCheck == InitCheck /\ [][NextCheck]_vars

(***************************************************************************)
(* SpecMark: the marking calls made directly on a platform, and the items  *)
(* fetched again afterwards                                                *)
(***************************************************************************)
MaxUsed == 2

\* the ids a run can add to usedTemplateIds: the sources that hold a prompt
TemplateIds == { t \in Range(TemplateSources) : SourcePrompt(t) # "" }

AddSequences == UNION { [1 .. n -> TemplateIds] : n \in 0 .. MaxUsed }

\* what the platform returns for an item now
FetchedComment(c) == [host |-> "discussion", id |-> c, reactions |-> Nodes(cmtReactions[c])]

FetchedSource(s) == [host |-> "issue", id |-> s, reactions |-> Count(srcReactions[s])]

MarkableItems == DComments \cup Range(TemplateSources)

Fetched(item) == IF item \in DComments THEN FetchedComment(item) ELSE FetchedSource(item)

InitMark ==
    /\ mkAdds \in AddSequences
    /\ mkPc = "ready"
    /\ mkCalls = <<>>
    /\ mkThrown = {}
    /\ mkSeen = <<>>
    /\ workflowType = "prompt-reply"
    /\ setup = SetupOk
    /\ apiConfigs = <<>>
    /\ cmtReactions \in [DComments -> DiscussionReactions]
    /\ srcReactions \in [Range(TemplateSources) -> IssueReactions]
    /\ srcReactions["t3"] = 0
    /\ mkBefore = { item \in MarkableItems : isProcessed(Fetched(item)) }
    /\ pcReactions = NoReactions(PComments)
    /\ titled = 0
    /\ CallIdle /\ CheckIdle /\ ParseIdle /\ ExtractIdle /\ HelpersIdle
    /\ RunIdle

\* the items that carry the thumbs-down after the step are remembered
Remember ==
    mkBefore' = mkBefore \cup { item \in MarkableItems : isProcessed(Fetched(item))' }

MarkFrame ==
    UNCHANGED <<callVars, checkVars, parseVars, extractVars, helperVars, triggerVars, mkAdds,
                workflowType, setup, apiConfigs, pcReactions, titled, pc, runs,
                promptTemplates, usedTemplateIds, loopVars, logVars, prevDone,
                failure>>

\* one call of addThumbsDownToDiscussionComment(comment.id)
MarkComment ==
    /\ mkPc = "ready"
    /\ \E c \in DComments, ok \in BOOLEAN :
          LET r == addThumbsDownToDiscussionComment(c, ok, cmtReactions)
          IN  /\ \A i \in 1 .. Len(mkCalls) : mkCalls[i].id # c
              /\ cmtReactions' = r.reactions
              /\ mkCalls' = Append(mkCalls, [id |-> c, ok |-> ok, thrown |-> r.thrown])
              /\ mkThrown' = IF r.thrown THEN mkThrown \cup {c} ELSE mkThrown
    /\ UNCHANGED <<mkPc, mkSeen, srcReactions>>
    /\ Remember
    /\ MarkFrame

\* one call of markUsedTemplatesAsProcessed(github, usedTemplateIds)
MarkTemplates ==
    /\ mkPc = "ready"
    /\ LET ids == SetOfAdds(mkAdds, <<>>)
       IN  \E ok \in [Range(ids) -> BOOLEAN] :
              LET r == markUsedTemplatesAsProcessed(ids, ok, srcReactions, mkCalls)
              IN  /\ srcReactions' = r.reactions
                  /\ mkCalls' = r.marks
                  /\ mkThrown' = IF r.thrown
                                 THEN mkThrown \cup {"markUsedTemplatesAsProcessed"}
                                 ELSE mkThrown
    /\ mkPc' = "marked"
    /\ UNCHANGED <<mkSeen, cmtReactions>>
    /\ Remember
    /\ MarkFrame

\* the items are fetched again and asked whether they are processed
Recheck ==
    /\ mkPc = "marked"
    /\ mkSeen' = [item \in MarkableItems |-> isProcessed(Fetched(item))]
    /\ mkPc' = "checked"
    /\ UNCHANGED <<mkCalls, mkThrown, cmtReactions, srcReactions>>
    /\ Remember
    /\ MarkFrame

NextMark ==
    \/ MarkComment
    \/ MarkTemplates
    \/ Recheck

SpecMark == InitMark /\ [][NextMark]_vars

(***************************************************************************)
(* SpecParse: one direct call of parseApiConfig on a bounded text          *)
(***************************************************************************)
MaxLines == 2

\* name: A
Line_name == Word_name \o <<":", " ", "A">>
\* Name:B
Line_Name == <<"N", "a", "m", "e", ":", "B">>
\* url: http://u
Line_url == Word_url \o <<":", " ", "h", "t", "t", "p", ":", "/", "/", "u">>
\* key: K1
Line_key1 == Word_key \o <<":", " ", "K", "1">>
\* key: K2
Line_key2 == Word_key \o <<":", " ", "K", "2">>
\* type: Gemini
Line_type == Word_type \o <<":", " ", "G", "e", "m", "i", "n", "i">>
\* keyname: K3
Line_keyname == Word_key \o Word_name \o <<":", " ", "K", "3">>
\* note: key
Line_note == <<"n", "o", "t", "e", ":", " ">> \o Word_key
\* name A
Line_noColon == Word_name \o <<" ", "A">>
\* url：B (the full-width colon)
Line_fullWidth == Word_url \o <<FullWidthColon, "B">>
\* name: A followed by a carriage return, as in a text with CRLF line ends
Line_nameCR == Line_name \o <<"\r">>
\* key: "K1"
Line_quoted == Word_key \o <<":", " ", "\"", "K", "1", "\"">>

ConfigLines ==
    { Line_name, Line_Name, Line_url, Line_key1, Line_key2, Line_type,
      Line_keyname, Line_note, Line_noColon, Line_fullWidth, Line_nameCR,
      Line_quoted }

RECURSIVE join(_, _)
\* lines.join(sep)
join(lines, sep) ==
    IF Len(lines) = 0 THEN <<>>
    ELSE IF Len(lines) = 1 THEN lines[1]
    ELSE lines[1] \o sep \o join(Tail(lines), sep)

\* name: A / url: B / key: K1 / key: K2 / type: gemini
ExampleLines ==
    << Word_name \o <<":", " ", "A">>,
       Word_url \o <<":", " ", "B">>,
       Line_key1,
       Line_key2,
       Word_type \o <<":", " ">> \o Word_gemini >>

\* the example with LF line ends and with CRLF line ends
ExampleTexts == { join(ExampleLines, <<"\n">>), join(ExampleLines, <<"\r", "\n">>) }

ConfigTexts ==
    { join(ls, <<"\n">>) : ls \in UNION { [1 .. n -> ConfigLines] : n \in 0 .. MaxLines } }
    \cup ExampleTexts

InitParse ==
    /\ cfgText \in ConfigTexts
    /\ cfgPc = "ready"
    /\ cfgResult = <<>>
    /\ CallIdle /\ CheckIdle /\ MarkIdle /\ ExtractIdle /\ HelpersIdle
    /\ PlatformIdle
    /\ RunIdle

\* one call of parseApiConfig
Parse ==
    /\ cfgPc = "ready"
    /\ cfgResult' = parseHistory(cfgText)
    /\ cfgPc' = "done"
    /\ UNCHANGED <<cfgText, callVars, checkVars, markVars, extractVars, helperVars, triggerVars,
                   runVars>>

NextParse == Parse

SpecParse == InitParse /\ [][NextParse]_vars

(***************************************************************************)
(* SpecExtract: one direct call of extractApiConfigs on bounded comments   *)
(***************************************************************************)
MaxComments == 2

\* the bodies of the comments of the api issue
Body_openai == join(<<Line_name, Line_url, Line_key1>>, <<"\n">>)
Body_gemini == join(<<Line_Name, Line_url, Line_key2, Line_type>>, <<"\n">>)
Body_geminiNoUrl == join(<<Line_Name, Line_key2, Line_type>>, <<"\n">>)
Body_openaiNoUrl == join(<<Line_name, Line_key1>>, <<"\n">>)
Body_noName == join(<<Line_url, Line_key1>>, <<"\n">>)
Body_noKey == join(<<Line_name, Line_url>>, <<"\n">>)

\* a key line with nothing behind the colon
Line_keyEmpty == Word_key \o <<":">>

Body_emptyKey == join(<<Line_name, Line_url, Line_keyEmpty, Line_type>>, <<"\n">>)

ConfigBodies ==
    { Body_openai, Body_gemini, Body_geminiNoUrl, Body_openaiNoUrl, Body_noName,
      Body_noKey, Body_emptyKey }

CreationTimes == {1, 2}

ApiComments ==
    [created_at : CreationTimes, reactions : { Count(n) : n \in IssueReactions },
     body : ConfigBodies]

InitExtract ==
    /\ exComments \in UNION { [1 .. n -> ApiComments] : n \in 0 .. MaxComments }
    /\ exPc = "ready"
    /\ exResult = <<>>
    /\ CallIdle /\ CheckIdle /\ MarkIdle /\ ParseIdle /\ HelpersIdle
    /\ PlatformIdle
    /\ RunIdle

\* extractApiConfigs with the sort on the array it was handed, not on a copy
ExtractSortingArgument ==
    /\ exPc = "ready"
    /\ exResult' = extractApiConfigs(exComments)
    /\ exComments' = sortByCreation(exComments, <<>>)
    /\ exPc' = "done"
    /\ UNCHANGED <<callVars, checkVars, markVars, parseVars, helperVars, triggerVars,
                   runVars>>

\* one call of extractApiConfigs
Extract ==
    /\ exPc = "ready"
    /\ exResult' = extractApiConfigs(exComments)
    /\ exPc' = "done"
    /\ UNCHANGED <<exComments, callVars, checkVars, markVars, parseVars, helperVars, triggerVars,
                   runVars>>

NextExtract == Extract

SpecExtract == InitExtract /\ [][NextExtract]_vars

(***************************************************************************)
(* SpecPrompt: one direct call of extractPrompt on a text                  *)
(***************************************************************************)
Text_hello == <<"h", "e", "l", "l", "o">>
Text_helloSpace == <<"h", "e", "l", "l", "o", " ">>
Token_SummaryPrompt ==
    <<"S", "u", "m", "m", "a", "r", "y", "P", "r", "o", "m", "p", "t">>
Token_FooPrompt == <<"F", "o", "o", "P", "r", "o", "m", "p", "t">>
Token_Fooprompt == <<"F", "o", "o", "p", "r", "o", "m", "p", "t">>
Token_My_2Prompt == <<"M", "y", "_", "2", "P", "r", "o", "m", "p", "t">>
Token_FooDashPrompt == <<"F", "o", "o", "-", "P", "r", "o", "m", "p", "t">>
Token_FooPrompts == <<"F", "o", "o", "P", "r", "o", "m", "p", "t", "s">>
Content_hello == <<" ", "h", "e", "l", "l", "o">>
Content_twoLines == <<" ", "a", ":", " ", "b", "\n", "c", " ">>
Content_blank == <<" ", "\n", "\t">>

\* what stands in front of the token
PromptPrefixes == {<<>>, Text_helloSpace, <<" ">>, <<"\n">>}

\* the tokens: with the suffix, with nothing before the suffix, with the
\* suffix in another case, with a character that is no \w character, with a
\* character after the suffix
PromptTokens ==
    { Token_SummaryPrompt, Token_FooPrompt, Word_Prompt, Token_Fooprompt,
      Token_My_2Prompt, Token_FooDashPrompt, Token_FooPrompts }

\* what follows the token
PromptSeparators == {<<":">>, <<FullWidthColon>>, <<" ", ":">>, <<>>}

PromptContents == {<<>>, Text_hello, Content_hello, Content_twoLines, Content_blank}

PromptBodies ==
    { p \o t \o s \o c :
        p \in PromptPrefixes, t \in PromptTokens, s \in PromptSeparators,
        c \in PromptContents }

InitPrompt ==
    /\ epBody \in PromptBodies
    /\ epPc = "ready"
    /\ epResult = NoPrompt
    /\ CallIdle /\ CheckIdle /\ MarkIdle /\ ParseIdle /\ ExtractIdle
    /\ FillIdle /\ ResponseIdle /\ TriggerIdle /\ RequestIdle /\ RetryIdle
    /\ PlatformIdle
    /\ RunIdle

\* one call of extractPrompt
ExtractPrompt ==
    /\ epPc = "ready"
    /\ epResult' = extractPrompt(epBody)
    /\ epPc' = "done"
    /\ UNCHANGED <<epBody, callVars, checkVars, markVars, parseVars, extractVars,
                   fillVars, responseVars, triggerVars, requestVars, retryVars,
                   runVars>>

NextPrompt == ExtractPrompt

SpecPrompt == InitPrompt /\ [][NextPrompt]_vars

(***************************************************************************)
(* SpecFill: one direct call of fillTemplate on a template and a content   *)
(***************************************************************************)
Word_Summarize == <<"S", "u", "m", "m", "a", "r", "i", "z", "e">>

\* Summarize: {{文章}}
Template_placeholder == Word_Summarize \o <<":", " ">> \o Placeholder
\* Summarize: {{article}}
Template_article == Word_Summarize \o <<":", " ">> \o PlaceholderArticle
\* {{文章}} or {{文章}}
Template_twice == Placeholder \o <<" ", "o", "r", " ">> \o Placeholder
\* A {{文章}} B
Template_inside == <<"A", " ">> \o Placeholder \o <<" ", "B">>
\* Summarize: {{文章
Template_open == Word_Summarize \o <<":", " ">> \o SubSeq(Placeholder, 1, 4)

Templates ==
    { <<>>, Word_Summarize, Placeholder, Template_placeholder, Template_article,
      Template_twice, Template_inside, Template_open }

Content_X == <<"X">>
Content_matched == <<"$", "&">>
Content_dollars == <<"c", "o", "s", "t", " ", "$", "$", "5">>
Content_before == <<"a", "$", GraveAccent, "b">>
Content_after == <<"$", "'">>
Content_group == <<"$", "1">>
Content_dollarEnd == <<"5", "$">>

\* the contents: plain, empty, with the '$' patterns of a replacement text,
\* with a '$' that starts no pattern, and the placeholder itself
Contents ==
    { Content_X, <<>>, Content_matched, Content_dollars, Content_before,
      Content_after, Content_group, Content_dollarEnd, Placeholder }

InitFill ==
    /\ ftTemplate \in Templates
    /\ ftContent \in Contents
    /\ ftPc = "ready"
    /\ ftResult = <<>>
    /\ CallIdle /\ CheckIdle /\ MarkIdle /\ ParseIdle /\ ExtractIdle
    /\ PromptIdle /\ ResponseIdle /\ TriggerIdle /\ RequestIdle /\ RetryIdle
    /\ PlatformIdle
    /\ RunIdle

\* one call of fillTemplate
Fill ==
    /\ ftPc = "ready"
    /\ ftResult' = fillTemplate(ftTemplate, ftContent)
    /\ ftPc' = "done"
    /\ UNCHANGED <<ftTemplate, ftContent, callVars, checkVars, markVars, parseVars,
                   extractVars, promptVars, responseVars, triggerVars, requestVars,
                   retryVars, runVars>>

NextFill == Fill

SpecFill == InitFill /\ [][NextFill]_vars

(***************************************************************************)
(* SpecResponse: one attempt of callLlmApi whose request was answered with *)
(* a 2xx response                                                          *)
(***************************************************************************)
\* the types a config can have: the default, gemini, and any other text
ResponseTypes == {"openai", "gemini", "claude"}

\* a candidate with content.parts[0].text, and one without content
Candidates == {[content |-> TRUE, text |-> "G"], [content |-> FALSE, text |-> ""]}

\* a choice: null, or an object whose message.content and text are each
\* missing, the empty text, or a text
Choices ==
    [object : {TRUE},
     content : {Undefined, Value(""), Value("A")},
     text : {Undefined, Value(""), Value("B")}]
    \cup {[object |-> FALSE, content |-> Undefined, text |-> Undefined]}

FullChoice == [object |-> TRUE, content |-> Value("A2"), text |-> Value("B2")]

FullCandidate == [content |-> TRUE, text |-> "G2"]

\* the bodies: each list missing, empty, with one element, or with a second
\* element behind it
Responses ==
    [candidates : {Missing, Field(<<>>)}
                  \cup { Field(<<c>>) : c \in Candidates }
                  \cup { Field(<<c, FullCandidate>>) : c \in Candidates },
     choices : {Missing, Field(<<>>)}
               \cup { Field(<<c>>) : c \in Choices }
               \cup { Field(<<c, FullChoice>>) : c \in Choices }]

InitResponse ==
    /\ gtType \in ResponseTypes
    /\ gtResponse \in Responses
    /\ gtPc = "ready"
    /\ gtResult = NoAttempt
    /\ CallIdle /\ CheckIdle /\ MarkIdle /\ ParseIdle /\ ExtractIdle
    /\ PromptIdle /\ FillIdle /\ TriggerIdle /\ RequestIdle /\ RetryIdle
    /\ PlatformIdle
    /\ RunIdle

\* the attempt goes on from the resolved axios.post
Attempt ==
    /\ gtPc = "ready"
    /\ gtResult' = attempt(gtResponse, gtType)
    /\ gtPc' = "done"
    /\ UNCHANGED <<gtType, gtResponse, callVars, checkVars, markVars, parseVars,
                   extractVars, promptVars, fillVars, triggerVars, requestVars,
                   retryVars, runVars>>

NextResponse == Attempt

SpecResponse == InitResponse /\ [][NextResponse]_vars

(***************************************************************************)
(* SpecRequest: the request one attempt of callLlmApi sends                *)
(***************************************************************************)
MaxBytes == 2

\* byte values: the lowest, the highest, and one between
ByteValues == {0, 77, 255}

RECURSIVE Buffers(_)
\* the buffers of at most n bytes
Buffers(n) ==
    IF n = 0 THEN {<<>>}
    ELSE Buffers(n - 1)
         \cup { Append(b, v) : b \in { x \in Buffers(n - 1) : Len(x) = n - 1 },
                               v \in ByteValues }

\* the prompts: a text and the empty text
Prompts == {"summarise", ""}

\* fileBuffer: left out, or a Buffer (the empty one included)
FileBuffers == {Missing} \cup { Field(b) : b \in Buffers(MaxBytes) }

\* mimeType: left out, the empty text, or a type
MimeTypes == {Undefined, Value(""), Value("application/pdf"), Value("image/png")}

InitRequest ==
    /\ rqPrompt \in Prompts
    /\ rqFileBuffer \in FileBuffers
    /\ rqMimeType \in MimeTypes
    /\ rqPc = "ready"
    /\ rqRequest = NoRequest
    /\ CallIdle /\ CheckIdle /\ MarkIdle /\ ParseIdle /\ ExtractIdle
    /\ PromptIdle /\ FillIdle /\ ResponseIdle /\ TriggerIdle /\ RetryIdle
    /\ PlatformIdle
    /\ RunIdle

\* the attempt builds promptParts and calls model.generateContent
BuildRequest ==
    /\ rqPc = "ready"
    /\ rqRequest' = generateContentRequest(rqPrompt, rqFileBuffer, rqMimeType)
    /\ rqPc' = "done"
    /\ UNCHANGED <<rqPrompt, rqFileBuffer, rqMimeType, callVars, checkVars, markVars,
                   parseVars, extractVars, promptVars, fillVars, responseVars,
                   triggerVars, retryVars, runVars>>

NextRequest == BuildRequest

SpecRequest == InitRequest /\ [][NextRequest]_vars

(***************************************************************************)
(* SpecRetry: one call of retry(fn, maxRetries, initialDelay)              *)
(***************************************************************************)
MaxRetries == 3

\* the delays handed in
InitialDelays == {0, 500}

InitRetry ==
    /\ rtFn \in [1 .. MaxRetries + 1 -> BOOLEAN]
    /\ rtMaxRetries \in {NotGiven} \cup { Given(n) : n \in 0 .. MaxRetries }
    /\ rtInitialDelay \in {NotGiven} \cup { Given(d) : d \in InitialDelays }
    /\ rtI = 0
    /\ rtPc = "loop"
    /\ rtCalls = <<>>
    /\ rtSleeps = <<>>
    /\ rtLastError = NoRejection
    /\ rtResult = NoOutcome
    /\ CallIdle /\ CheckIdle /\ MarkIdle /\ ParseIdle /\ ExtractIdle
    /\ PromptIdle /\ FillIdle /\ ResponseIdle /\ TriggerIdle /\ RequestIdle
    /\ PlatformIdle
    /\ RunIdle

RetryFrame ==
    UNCHANGED <<rtFn, rtMaxRetries, rtInitialDelay, callVars, checkVars, markVars,
                parseVars, extractVars, promptVars, fillVars, responseVars,
                triggerVars, requestVars, runVars>>

\* try { return await fn() } with the loop test passed, the call rejecting
\* as often as the limit allows before the next test
CallFnUnchecked ==
    /\ rtPc = "loop"
    /\ rtI <= Default(rtMaxRetries, DefaultMaxRetries)
    /\ LET k == Len(rtCalls) + 1
       IN  /\ rtCalls' = Append(rtCalls, k)
           /\ IF rtFn[k]
              THEN /\ rtPc' = "returned"
                   /\ rtResult' = Resolved(k)
                   /\ UNCHANGED rtLastError
              ELSE /\ rtPc' = "caught"
                   /\ rtLastError' = Rejection(k)
                   /\ UNCHANGED rtResult
    /\ UNCHANGED <<rtI, rtSleeps>>
    /\ RetryFrame

\* i < maxRetries holds: try { return await fn() }, and the catch keeps the
\* error in lastError
CallFn ==
    /\ rtPc = "loop"
    /\ rtI < Default(rtMaxRetries, DefaultMaxRetries)
    /\ LET k == Len(rtCalls) + 1
       IN  /\ rtCalls' = Append(rtCalls, k)
           /\ IF rtFn[k]
              THEN /\ rtPc' = "returned"
                   /\ rtResult' = Resolved(k)
                   /\ UNCHANGED rtLastError
              ELSE /\ rtPc' = "caught"
                   /\ rtLastError' = Rejection(k)
                   /\ UNCHANGED rtResult
    /\ UNCHANGED <<rtI, rtSleeps>>
    /\ RetryFrame

\* the rest of the catch: await sleep(delay), then i++
Sleep ==
    /\ rtPc = "caught"
    /\ rtSleeps' = Append(rtSleeps, delay(Default(rtInitialDelay, DefaultInitialDelay), rtI))
    /\ rtI' = rtI + 1
    /\ rtPc' = "loop"
    /\ UNCHANGED <<rtCalls, rtLastError, rtResult>>
    /\ RetryFrame

\* i < maxRetries fails: throw lastError
ThrowLastError ==
    /\ rtPc = "loop"
    /\ rtI >= Default(rtMaxRetries, DefaultMaxRetries)
    /\ rtPc' = "thrown"
    /\ rtResult' = ThrownLast(rtLastError)
    /\ UNCHANGED <<rtI, rtCalls, rtSleeps, rtLastError>>
    /\ RetryFrame

NextRetry == CallFn \/ Sleep \/ ThrowLastError

SpecRetry == InitRetry /\ [][NextRetry]_vars

(***************************************************************************)
(* SpecTriggers: the prompt-reply runs the two triggers of the workflow    *)
(* start, each at the grain of one comment                                 *)
(***************************************************************************)
\* the comments a run walks through, discussion by discussion
TriggerComments ==
    DiscussionComments(Discussions[1]) \o DiscussionComments(Discussions[2])

InitTriggers ==
    /\ TriggerIdle
    /\ workflowType = "prompt-reply"
    /\ setup = SetupOk
    /\ apiConfigs = <<>>
    /\ cmtReactions \in [DComments -> DiscussionReactions]
    /\ srcReactions = NoReactions(Range(TemplateSources))
    /\ pcReactions = NoReactions(PComments)
    /\ titled = 0
    /\ CallIdle /\ CheckIdle /\ MarkIdle /\ ParseIdle /\ ExtractIdle
    /\ PromptIdle /\ FillIdle /\ ResponseIdle /\ RequestIdle /\ RetryIdle
    /\ RunIdle

TriggerFrame ==
    UNCHANGED <<callVars, checkVars, markVars, parseVars, extractVars, helperVars,
                runVars>>

\* an event of a trigger starts a run; the workflow has no concurrency group,
\* so the run starts whatever the run of the other trigger is doing
StartTriggered ==
    /\ \E r \in Triggers :
          /\ trPc[r] = "waiting"
          /\ trPc' = [trPc EXCEPT ![r] = "comments"]
    /\ UNCHANGED <<trIdx, trPosts>>
    /\ TriggerFrame

\* the run passes over a comment it reads as marked
PassMarked ==
    /\ \E r \in Triggers :
          /\ trPc[r] = "comments" /\ trIdx[r] <= Len(TriggerComments)
          /\ hasDiscussionThumbsDownReaction(FetchedComment(TriggerComments[trIdx[r]]))
          /\ trIdx' = [trIdx EXCEPT ![r] = @ + 1]
    /\ UNCHANGED <<trPc, trPosts>>
    /\ TriggerFrame

\* the run reads a comment as unmarked and begins with its templates
ReadUnmarked ==
    /\ \E r \in Triggers :
          /\ trPc[r] = "comments" /\ trIdx[r] <= Len(TriggerComments)
          /\ ~hasDiscussionThumbsDownReaction(FetchedComment(TriggerComments[trIdx[r]]))
          /\ trPc' = [trPc EXCEPT ![r] = "templates"]
    /\ UNCHANGED <<trIdx, trPosts>>
    /\ TriggerFrame

\* the run finishes the comment: the reply is posted, or the call or the post
\* threw; no reaction is written
ReplyTriggered ==
    /\ \E r \in Triggers, ok \in BOOLEAN :
          /\ trPc[r] = "templates"
          /\ trPosts' = IF ok
                        THEN Append(trPosts, [run |-> r, item |-> TriggerComments[trIdx[r]]])
                        ELSE trPosts
          /\ trPc' = [trPc EXCEPT ![r] = "comments"]
          /\ trIdx' = [trIdx EXCEPT ![r] = @ + 1]
    /\ TriggerFrame

\* the run is through with the comments
EndTriggered ==
    /\ \E r \in Triggers :
          /\ trPc[r] = "comments" /\ trIdx[r] > Len(TriggerComments)
          /\ trPc' = [trPc EXCEPT ![r] = "ended"]
    /\ UNCHANGED <<trIdx, trPosts>>
    /\ TriggerFrame

NextTriggers ==
    \/ StartTriggered
    \/ PassMarked
    \/ ReadUnmarked
    \/ ReplyTriggered
    \/ EndTriggered

SpecTriggers == InitTriggers /\ [][NextTriggers]_vars

(***************************************************************************)
(* The workflows                                                           *)
(***************************************************************************)
\* the preconditions a run finds on the platform
Setups == [repo : BOOLEAN, apiIssue : BOOLEAN, templateIssue : BOOLEAN]

Init ==
    /\ CallIdle /\ CheckIdle /\ MarkIdle /\ ParseIdle /\ ExtractIdle /\ HelpersIdle
    /\ setup \in Setups
    /\ apiConfigs \in RunConfigLists
    /\ \/ /\ workflowType = "prompt-reply"
          /\ cmtReactions \in [DComments -> DiscussionReactions]
          /\ srcReactions \in [Range(TemplateSources) -> IssueReactions]
          /\ srcReactions["t3"] = 0
          /\ pcReactions = NoReactions(PComments)
          /\ titled = 0
       \/ /\ workflowType = "prompt-comment"
          /\ cmtReactions = [c \in DComments |-> {}]
          /\ srcReactions = NoReactions(Range(TemplateSources))
          /\ pcReactions \in [PComments -> IssueReactions]
          /\ titled \in {0, 1}
    /\ RunIdle

ResetLogs ==
    /\ calls' = <<>> /\ posts' = <<>> /\ failed' = {} /\ skipped' = {}
    /\ markCalls' = <<>>

\* the work items this run posted for and had no failure with
DoneItems == { posts[i].item : i \in 1 .. Len(posts) } \ failed

\* the catch of the run: handleError gives the message to core.setFailed and
\* the run is over
Abort(message) ==
    /\ failure' = message
    /\ pc' = "idle"

\* the start of a run without the check that a prompt+reply issue exists
StartReplyRunNoTemplateCheck ==
    /\ pc = "idle" /\ runs < MaxRuns /\ workflowType = "prompt-reply"
    /\ runs' = runs + 1
    /\ usedTemplateIds' = {}
    /\ dIdx' = 1 /\ comments' = <<>> /\ cIdx' = 1 /\ context' = "" /\ tIdx' = 1
    /\ allTemplatesSucceeded' = TRUE
    /\ ResetLogs
    /\ IF ~setup.repo
       THEN Abort("InvalidRepo") /\ promptTemplates' = <<>> /\ prevDone' = {}
       ELSE IF ~setup.apiIssue
       THEN Abort("NoApiIssue") /\ promptTemplates' = <<>> /\ prevDone' = {}
       ELSE /\ promptTemplates' = IF setup.templateIssue
                                  THEN loadPromptTemplates(srcReactions) ELSE <<>>
            /\ failure' = ""
            /\ pc' = "discussions"
            /\ UNCHANGED prevDone
    /\ UNCHANGED <<invVars, platformVars, titled>>

\* runPromptReplyAction up to the loop over the discussions: new
\* GitHubClient(token, repo), getApiConfigs (getApiIssue), loadPromptTemplates;
\* a throw of any of them goes to the catch of the run
StartReplyRun ==
    /\ pc = "idle" /\ runs < MaxRuns /\ workflowType = "prompt-reply"
    /\ runs' = runs + 1
    /\ usedTemplateIds' = {}
    /\ dIdx' = 1 /\ comments' = <<>> /\ cIdx' = 1 /\ context' = "" /\ tIdx' = 1
    /\ allTemplatesSucceeded' = TRUE
    /\ ResetLogs
    /\ IF ~setup.repo
       THEN Abort("InvalidRepo") /\ promptTemplates' = <<>> /\ prevDone' = {}
       ELSE IF ~setup.apiIssue
       THEN Abort("NoApiIssue") /\ promptTemplates' = <<>> /\ prevDone' = {}
       ELSE IF ~setup.templateIssue
       THEN Abort("NoTemplateIssue") /\ promptTemplates' = <<>> /\ prevDone' = {}
       ELSE /\ promptTemplates' = loadPromptTemplates(srcReactions)
            /\ failure' = ""
            /\ pc' = "discussions"
            /\ UNCHANGED prevDone
    /\ UNCHANGED <<invVars, platformVars, titled>>

\* for (const discussion of discussions): getDiscussionComments, which is
\* outside the try of the comment: its throw goes to the catch of the run
FetchComments ==
    /\ pc = "discussions" /\ dIdx <= Len(Discussions)
    /\ \/ /\ comments' = [i \in 1 .. Len(DiscussionComments(Discussions[dIdx])) |->
                      [id |-> DiscussionComments(Discussions[dIdx])[i],
                       reactions |-> Nodes(cmtReactions[DiscussionComments(Discussions[dIdx])[i]])]]
          /\ cIdx' = 1
          /\ pc' = "comments"
          /\ UNCHANGED <<prevDone, failure>>
       \/ /\ Abort("FetchFailed")
          /\ prevDone' = DoneItems
          /\ UNCHANGED <<comments, cIdx>>
    /\ UNCHANGED <<invVars, platformVars, titled, runs, promptTemplates,
                   usedTemplateIds, dIdx, context, tIdx, allTemplatesSucceeded,
                   logVars>>

\* a comment with the thumbs-down is passed over
SkipComment ==
    /\ pc = "comments" /\ cIdx <= Len(comments)
    /\ hasDiscussionThumbsDownReaction(comments[cIdx])
    /\ skipped' = skipped \cup {comments[cIdx].id}
    /\ cIdx' = cIdx + 1
    /\ UNCHANGED <<invVars, platformVars, titled, pc, runs, promptTemplates,
                   usedTemplateIds, dIdx, comments, context, tIdx,
                   allTemplatesSucceeded, calls, posts, failed, markCalls, prevDone, failure>>

\* the context of a comment: the text of its PDF when it links one (the
\* download or the parse may throw, which ends the comment), else its body
BeginComment ==
    /\ pc = "comments" /\ cIdx <= Len(comments)
    /\ ~hasDiscussionThumbsDownReaction(comments[cIdx])
    /\ \/ /\ HasPdf(comments[cIdx].id)
          /\ \/ /\ context' = "pdf"
                /\ pc' = "templates" /\ tIdx' = 1 /\ allTemplatesSucceeded' = TRUE
                /\ UNCHANGED <<cIdx, failed>>
             \/ /\ failed' = failed \cup {comments[cIdx].id}
                /\ cIdx' = cIdx + 1
                /\ UNCHANGED <<pc, context, tIdx, allTemplatesSucceeded>>
       \/ /\ ~HasPdf(comments[cIdx].id)
          /\ context' = "body"
          /\ pc' = "templates" /\ tIdx' = 1 /\ allTemplatesSucceeded' = TRUE
          /\ UNCHANGED <<cIdx, failed>>
    /\ UNCHANGED <<invVars, platformVars, titled, runs, promptTemplates,
                   usedTemplateIds, dIdx, comments, calls, posts, skipped,
                   markCalls, prevDone, failure>>

\* one template applied with the catch of the template lost: a throw ends the run
ApplyTemplateNoCatch ==
    /\ pc = "templates" /\ tIdx <= Len(promptTemplates)
    /\ LET comment == comments[cIdx]
           template == promptTemplates[tIdx]
       IN  \E ok \in Oracles(apiConfigs), postOk \in BOOLEAN :
                 LET res == callLlmApi([present |-> TRUE, list |-> apiConfigs], ok)
                 IN  /\ calls' = Append(calls,
                            [item |-> comment.id, template |-> template.id,
                             content |-> context, error |-> res.error,
                             text |-> res.text,
                             attempts |-> Len(res.attempts),
                             post |-> IF res.status # "ok" THEN "none"
                                      ELSE IF postOk THEN "accepted" ELSE "rejected"])
                     /\ IF res.status = "ok" /\ postOk
                        THEN /\ posts' = Append(posts,
                                    [item |-> comment.id, template |-> template.id,
                                     arg1 |-> Discussions[dIdx], arg2 |-> comment.id,
                                     arg3 |-> trim(res.text),
                                     input |-> callAddDiscussionReply(
                                         <<IdArg(Discussions[dIdx]), IdArg(comment.id),
                                           TextArg(trim(res.text))>>)])
                             /\ usedTemplateIds' = usedTemplateIds \cup {template.id}
                             /\ UNCHANGED <<allTemplatesSucceeded, failed, pc,
                                            failure, prevDone>>
                        ELSE /\ allTemplatesSucceeded' = FALSE
                             /\ failed' = failed \cup {comment.id}
                             /\ Abort("ItemFailed")
                             /\ prevDone' = DoneItems
                             /\ UNCHANGED <<posts, usedTemplateIds>>
    /\ tIdx' = tIdx + 1
    /\ UNCHANGED <<invVars, platformVars, titled, runs, promptTemplates,
                   dIdx, comments, cIdx, context, skipped, markCalls>>

\* one template applied with the reply posted whatever callLlmApi did
ApplyTemplatePostAlways ==
    /\ pc = "templates" /\ tIdx <= Len(promptTemplates)
    /\ LET comment == comments[cIdx]
           template == promptTemplates[tIdx]
       IN  \E ok \in Oracles(apiConfigs), postOk \in BOOLEAN :
                 LET res == callLlmApi([present |-> TRUE, list |-> apiConfigs], ok)
                 IN  /\ calls' = Append(calls,
                            [item |-> comment.id, template |-> template.id,
                             content |-> context, error |-> res.error,
                             text |-> res.text,
                             attempts |-> Len(res.attempts),
                             post |-> IF res.status # "ok" THEN "none"
                                      ELSE IF postOk THEN "accepted" ELSE "rejected"])
                     /\ IF postOk
                        THEN /\ posts' = Append(posts,
                                    [item |-> comment.id, template |-> template.id,
                                     arg1 |-> Discussions[dIdx], arg2 |-> comment.id,
                                     arg3 |-> trim(res.text),
                                     input |-> callAddDiscussionReply(
                                         <<IdArg(Discussions[dIdx]), IdArg(comment.id),
                                           TextArg(trim(res.text))>>)])
                             /\ usedTemplateIds' = usedTemplateIds \cup {template.id}
                             /\ UNCHANGED <<allTemplatesSucceeded, failed>>
                        ELSE /\ allTemplatesSucceeded' = FALSE
                             /\ failed' = failed \cup {comment.id}
                             /\ UNCHANGED <<posts, usedTemplateIds>>
    /\ tIdx' = tIdx + 1
    /\ UNCHANGED <<invVars, platformVars, titled, pc, runs, promptTemplates,
                   dIdx, comments, cIdx, context, skipped, markCalls, prevDone, failure>>

\* one template applied with the reply posted once for each config
ApplyTemplatePostPerConfig ==
    /\ pc = "templates" /\ tIdx <= Len(promptTemplates)
    /\ LET comment == comments[cIdx]
           template == promptTemplates[tIdx]
       IN  \E ok \in Oracles(apiConfigs), postOk \in BOOLEAN :
                 LET res == callLlmApi([present |-> TRUE, list |-> apiConfigs], ok)
                 IN  /\ calls' = Append(calls,
                            [item |-> comment.id, template |-> template.id,
                             content |-> context, error |-> res.error,
                             text |-> res.text,
                             attempts |-> Len(res.attempts),
                             post |-> IF res.status # "ok" THEN "none"
                                      ELSE IF postOk THEN "accepted" ELSE "rejected"])
                     /\ IF res.status = "ok" /\ postOk
                        THEN /\ posts' = posts \o
                                    [c \in 1 .. Len(apiConfigs) |->
                                    [item |-> comment.id, template |-> template.id,
                                     arg1 |-> Discussions[dIdx], arg2 |-> comment.id,
                                     arg3 |-> trim(res.text),
                                     input |-> callAddDiscussionReply(
                                         <<IdArg(Discussions[dIdx]), IdArg(comment.id),
                                           TextArg(trim(res.text))>>)]]
                             /\ usedTemplateIds' = usedTemplateIds \cup {template.id}
                             /\ UNCHANGED <<allTemplatesSucceeded, failed>>
                        ELSE /\ allTemplatesSucceeded' = FALSE
                             /\ failed' = failed \cup {comment.id}
                             /\ UNCHANGED <<posts, usedTemplateIds>>
    /\ tIdx' = tIdx + 1
    /\ UNCHANGED <<invVars, platformVars, titled, pc, runs, promptTemplates,
                   dIdx, comments, cIdx, context, skipped, markCalls, prevDone, failure>>

\* the body of the template loop with usedTemplateIds.add ahead of the post
ApplyTemplateAddBeforePost ==
    /\ pc = "templates" /\ tIdx <= Len(promptTemplates)
    /\ LET comment == comments[cIdx]
           template == promptTemplates[tIdx]
       IN  \E ok \in Oracles(apiConfigs), postOk \in BOOLEAN :
                 LET res == callLlmApi([present |-> TRUE, list |-> apiConfigs], ok)
                 IN  /\ calls' = Append(calls,
                            [item |-> comment.id, template |-> template.id,
                             content |-> context, error |-> res.error,
                             text |-> res.text,
                             attempts |-> Len(res.attempts),
                             post |-> IF res.status # "ok" THEN "none"
                                      ELSE IF postOk THEN "accepted" ELSE "rejected"])
                     /\ IF res.status = "ok" /\ postOk
                        THEN /\ posts' = Append(posts,
                                    [item |-> comment.id, template |-> template.id,
                                     arg1 |-> Discussions[dIdx], arg2 |-> comment.id,
                                     arg3 |-> trim(res.text),
                                     input |-> callAddDiscussionReply(
                                         <<IdArg(Discussions[dIdx]), IdArg(comment.id),
                                           TextArg(trim(res.text))>>)])
                             /\ usedTemplateIds' = usedTemplateIds \cup {template.id}
                             /\ UNCHANGED <<allTemplatesSucceeded, failed>>
                        ELSE /\ allTemplatesSucceeded' = FALSE
                             /\ failed' = failed \cup {comment.id}
                             /\ usedTemplateIds' =
                                   IF res.status = "ok"
                                   THEN usedTemplateIds \cup {template.id}
                                   ELSE usedTemplateIds
                             /\ UNCHANGED posts
    /\ tIdx' = tIdx + 1
    /\ UNCHANGED <<invVars, platformVars, titled, pc, runs, promptTemplates,
                   dIdx, comments, cIdx, context, skipped, markCalls, prevDone, failure>>

\* one template applied to the current comment: fillTemplate, callLlmApi,
\* trim, addDiscussionReply(discussion.id, comment.id, generatedText), and
\* usedTemplateIds.add; a throw of the call or of the post is caught
ApplyTemplate ==
    /\ pc = "templates" /\ tIdx <= Len(promptTemplates)
    /\ LET comment == comments[cIdx]
           template == promptTemplates[tIdx]
       IN  \E ok \in Oracles(apiConfigs), postOk \in BOOLEAN :
                 LET res == callLlmApi([present |-> TRUE, list |-> apiConfigs], ok)
                 IN  /\ calls' = Append(calls,
                            [item |-> comment.id, template |-> template.id,
                             content |-> context, error |-> res.error,
                             text |-> res.text,
                             attempts |-> Len(res.attempts),
                             post |-> IF res.status # "ok" THEN "none"
                                      ELSE IF postOk THEN "accepted" ELSE "rejected"])
                     /\ IF res.status = "ok" /\ postOk
                        THEN /\ posts' = Append(posts,
                                    [item |-> comment.id, template |-> template.id,
                                     arg1 |-> Discussions[dIdx], arg2 |-> comment.id,
                                     arg3 |-> trim(res.text),
                                     input |-> callAddDiscussionReply(
                                         <<IdArg(Discussions[dIdx]), IdArg(comment.id),
                                           TextArg(trim(res.text))>>)])
                             /\ usedTemplateIds' = usedTemplateIds \cup {template.id}
                             /\ UNCHANGED <<allTemplatesSucceeded, failed>>
                        ELSE /\ allTemplatesSucceeded' = FALSE
                             /\ failed' = failed \cup {comment.id}
                             /\ UNCHANGED <<posts, usedTemplateIds>>
    /\ tIdx' = tIdx + 1
    /\ UNCHANGED <<invVars, platformVars, titled, pc, runs, promptTemplates,
                   dIdx, comments, cIdx, context, skipped, markCalls, prevDone, failure>>

\* the end of a comment; with a reaction written whatever the templates did
EndCommentMarkAlways ==
    /\ pc = "templates" /\ tIdx > Len(promptTemplates)
    /\ markCalls' = Append(markCalls, comments[cIdx].id)
    /\ cmtReactions' = [cmtReactions EXCEPT ![comments[cIdx].id] = {"THUMBS_DOWN"}]
    /\ cIdx' = cIdx + 1
    /\ pc' = "comments"
    /\ UNCHANGED <<invVars, workflowType, setup, apiConfigs, srcReactions, pcReactions,
                   titled, runs, promptTemplates, usedTemplateIds, dIdx, comments,
                   context, tIdx, allTemplatesSucceeded, calls, posts, failed,
                   skipped, prevDone, failure>>

\* the end of a comment: all templates were applied; no reaction is written
EndComment ==
    /\ pc = "templates" /\ tIdx > Len(promptTemplates)
    /\ cIdx' = cIdx + 1
    /\ pc' = "comments"
    /\ UNCHANGED <<invVars, platformVars, titled, runs, promptTemplates,
                   usedTemplateIds, dIdx, comments, context, tIdx,
                   allTemplatesSucceeded, logVars, prevDone, failure>>

\* the end of a discussion (or issue): on to the next one
EndComments ==
    /\ pc \in {"comments", "issueComments"} /\ cIdx > Len(comments)
    /\ dIdx' = dIdx + 1
    /\ pc' = IF pc = "comments" THEN "discussions" ELSE "issues"
    /\ UNCHANGED <<invVars, platformVars, titled, runs, promptTemplates,
                   usedTemplateIds, comments, cIdx, context, tIdx,
                   allTemplatesSucceeded, logVars, prevDone, failure>>

\* the end of the run: no template is marked, the run completes
EndRun ==
    /\ \/ pc = "discussions" /\ dIdx > Len(Discussions)
       \/ pc = "issues" /\ dIdx > Len(Issues)
    /\ pc' = "idle"
    /\ prevDone' = DoneItems
    /\ UNCHANGED <<invVars, platformVars, titled, runs, promptTemplates,
                   usedTemplateIds, loopVars, logVars, failure>>

\* runPromptCommentAction up to the loop over the issues: new
\* GitHubClient(token, repo), getApiConfigs (getApiIssue), getIssuesWithLabels
StartCommentRun ==
    /\ pc = "idle" /\ runs < MaxRuns /\ workflowType = "prompt-comment"
    /\ runs' = runs + 1
    /\ dIdx' = 1 /\ comments' = <<>> /\ cIdx' = 1
    /\ ResetLogs
    /\ IF ~setup.repo
       THEN Abort("InvalidRepo") /\ prevDone' = {}
       ELSE IF ~setup.apiIssue
       THEN Abort("NoApiIssue") /\ prevDone' = {}
       ELSE /\ failure' = ""
            /\ pc' = "issues"
            /\ UNCHANGED prevDone
    /\ UNCHANGED <<invVars, platformVars, titled, promptTemplates, usedTemplateIds,
                   context, tIdx, allTemplatesSucceeded>>

\* for (const issue of issues): getIssueComments, which is outside the try
\* of the comment: its throw goes to the catch of the run
FetchIssueComments ==
    /\ pc = "issues" /\ dIdx <= Len(Issues)
    /\ \/ /\ comments' = [i \in 1 .. Len(IssueComments(Issues[dIdx])) |->
                      [id |-> IssueComments(Issues[dIdx])[i],
                       reactions |-> Count(pcReactions[IssueComments(Issues[dIdx])[i]])]]
          /\ cIdx' = 1
          /\ pc' = "issueComments"
          /\ UNCHANGED <<prevDone, failure>>
       \/ /\ Abort("FetchFailed")
          /\ prevDone' = DoneItems
          /\ UNCHANGED <<comments, cIdx>>
    /\ UNCHANGED <<invVars, platformVars, titled, runs, promptTemplates,
                   usedTemplateIds, dIdx, context, tIdx, allTemplatesSucceeded,
                   logVars>>

\* an issue comment with the thumbs-down, or without a prompt, is passed over
SkipIssueComment ==
    /\ pc = "issueComments" /\ cIdx <= Len(comments)
    /\ \/ /\ hasThumbsDownReaction(comments[cIdx])
          /\ skipped' = skipped \cup {comments[cIdx].id}
       \/ /\ ~hasThumbsDownReaction(comments[cIdx])
          /\ CommentPrompt(comments[cIdx].id) = ""
          /\ UNCHANGED skipped
    /\ cIdx' = cIdx + 1
    /\ UNCHANGED <<invVars, platformVars, titled, pc, runs, promptTemplates,
                   usedTemplateIds, dIdx, comments, context, tIdx,
                   allTemplatesSucceeded, calls, posts, failed, markCalls, prevDone, failure>>

\* the body of the comment loop with createDiscussion called without a look
\* for a discussion of the title
ProcessIssueCommentCreateAlways ==
    /\ pc = "issueComments" /\ cIdx <= Len(comments)
    /\ ~hasThumbsDownReaction(comments[cIdx])
    /\ CommentPrompt(comments[cIdx].id) # ""
    /\ LET comment == comments[cIdx]
       IN  \E ok \in Oracles(apiConfigs), createOk \in BOOLEAN, postOk \in BOOLEAN :
                 LET res == callLlmApi([present |-> TRUE, list |-> apiConfigs], ok)
                     create == res.status = "ok"
                 IN  /\ calls' = Append(calls,
                            [item |-> comment.id, template |-> "",
                             content |-> "prompt", error |-> res.error,
                             text |-> res.text,
                             created |-> create /\ createOk,
                             attempts |-> Len(res.attempts),
                             post |-> IF ~(res.status = "ok" /\ (create => createOk))
                                      THEN "none"
                                      ELSE IF postOk THEN "accepted" ELSE "rejected"])
                     /\ titled' = IF create /\ createOk THEN titled + 1 ELSE titled
                     /\ IF res.status = "ok" /\ (create => createOk) /\ postOk
                        THEN /\ posts' = Append(posts,
                                    [item |-> comment.id, template |-> "",
                                     arg1 |-> Issues[dIdx], arg2 |-> trim(res.text),
                                     arg3 |-> NoText,
                                     input |-> addDiscussionComment(
                                         IdArg(Issues[dIdx]), TextArg(trim(res.text)))])
                             /\ UNCHANGED failed
                        ELSE /\ failed' = failed \cup {comment.id}
                             /\ UNCHANGED posts
    /\ cIdx' = cIdx + 1
    /\ UNCHANGED <<invVars, platformVars, pc, runs, promptTemplates,
                   usedTemplateIds, dIdx, comments, context, tIdx,
                   allTemplatesSucceeded, skipped, markCalls, prevDone, failure>>

\* one issue comment with a prompt: callLlmApi, trim, getDiscussionByTitle,
\* createDiscussion when there is none, addDiscussionComment; a throw of any
\* of them is caught; no reaction is written
ProcessIssueComment ==
    /\ pc = "issueComments" /\ cIdx <= Len(comments)
    /\ ~hasThumbsDownReaction(comments[cIdx])
    /\ CommentPrompt(comments[cIdx].id) # ""
    /\ LET comment == comments[cIdx]
       IN  \E ok \in Oracles(apiConfigs), createOk \in BOOLEAN, postOk \in BOOLEAN :
                 LET res == callLlmApi([present |-> TRUE, list |-> apiConfigs], ok)
                     create == res.status = "ok" /\ titled = 0
                 IN  /\ calls' = Append(calls,
                            [item |-> comment.id, template |-> "",
                             content |-> "prompt", error |-> res.error,
                             text |-> res.text,
                             created |-> create /\ createOk,
                             attempts |-> Len(res.attempts),
                             post |-> IF ~(res.status = "ok" /\ (create => createOk))
                                      THEN "none"
                                      ELSE IF postOk THEN "accepted" ELSE "rejected"])
                     /\ titled' = IF create /\ createOk THEN titled + 1 ELSE titled
                     /\ IF res.status = "ok" /\ (create => createOk) /\ postOk
                        THEN /\ posts' = Append(posts,
                                    [item |-> comment.id, template |-> "",
                                     arg1 |-> Issues[dIdx], arg2 |-> trim(res.text),
                                     arg3 |-> NoText,
                                     input |-> addDiscussionComment(
                                         IdArg(Issues[dIdx]), TextArg(trim(res.text)))])
                             /\ UNCHANGED failed
                        ELSE /\ failed' = failed \cup {comment.id}
                             /\ UNCHANGED posts
    /\ cIdx' = cIdx + 1
    /\ UNCHANGED <<invVars, platformVars, pc, runs, promptTemplates,
                   usedTemplateIds, dIdx, comments, context, tIdx,
                   allTemplatesSucceeded, skipped, markCalls, prevDone, failure>>

Next ==
    \/ StartReplyRun
    \/ FetchComments
    \/ SkipComment
    \/ BeginComment
    \/ ApplyTemplate
    \/ EndComment
    \/ EndComments
    \/ EndRun
    \/ StartCommentRun
    \/ FetchIssueComments
    \/ SkipIssueComment
    \/ ProcessIssueComment

Spec == Init /\ [][Next]_vars

(***************************************************************************)
(* SpecConfigs: the config list from its extraction to its uses: a direct  *)
(* call of extractApiConfigs, a direct call of callLlmApi, or the runs     *)
(***************************************************************************)
InitConfigs == InitExtract \/ InitInvoke \/ Init

\* a direct call is made where no run is under way
ExtractAlone == RunIdle /\ PlatformIdle /\ Extract

InvokeAlone == RunIdle /\ PlatformIdle /\ Invoke

\* a run goes on where no direct call was made
RunStep == CallIdle /\ ExtractIdle /\ Next

NextConfigs == ExtractAlone \/ InvokeAlone \/ RunStep

SpecConfigs == InitConfigs /\ [][NextConfigs]_vars

(***************************************************************************)
(* Claims about callLlmApi (checked under SpecInvoke)                      *)
(***************************************************************************)
RECURSIVE Flatten(_)
\* the credentials of a list in priority order: configs in list order, each
\* config's keys in list order
Flatten(list) ==
    IF Len(list) = 0 THEN <<>>
    ELSE [j \in 1 .. Len(list[1].keys) |-> [name |-> list[1].name, key |-> list[1].keys[j]]]
         \o Flatten(Tail(list))

Attempted(res) == [i \in 1 .. Len(res.attempts) |->
                      [name |-> res.attempts[i].name, key |-> res.attempts[i].key]]

IsPrefix(s, t) == Len(s) <= Len(t) /\ \A i \in 1 .. Len(s) : s[i] = t[i]

\* the kinds the design supports (StandardChat, GeminiStyle)
SupportedKinds == {"openai", "gemini"}

AllSupported(list) == \A i \in 1 .. Len(list) : list[i].type \in SupportedKinds

InvDone == invPc = "done" /\ invConfigs.present

\* C1: the attempts of one call are a prefix of the flattened priority order
\* of the list (every config of a supported kind); and for [A(k1,k2), B(k3)]
\* with k1, k2 failing and k3 succeeding the call returns B's text after the
\* three attempts k1, k2, k3.
C1_AttemptsArePrefixOfPriorityOrder ==
    (InvDone /\ AllSupported(invConfigs.list)) =>
        /\ IsPrefix(Attempted(invResult), Flatten(invConfigs.list))
        /\ LET l == invConfigs.list
           IN  (/\ Len(l) = 2 /\ Len(l[1].keys) = 2 /\ Len(l[2].keys) = 1
                /\ ~invOracle[l[1].keys[1]] /\ ~invOracle[l[1].keys[2]]
                /\ invOracle[l[2].keys[1]])
               => /\ invResult.status = "ok"
                  /\ invResult.text.model = l[2].name
                  /\ Attempted(invResult) = Flatten(l)

\* C2: at most one attempt of a call succeeds: a successful attempt is the
\* last attempt of the call, and the call returns that attempt's text.
C2_AtMostOneSuccess ==
    InvDone =>
        \A i \in 1 .. Len(invResult.attempts) :
            invResult.attempts[i].ok =>
                /\ i = Len(invResult.attempts)
                /\ invResult.status = "ok"
                /\ invResult.text.model = invResult.attempts[i].name
                /\ invResult.text.key = invResult.attempts[i].key

\* C2 witness: a call returned a text while a later credential would have
\* succeeded too
C2_Witness ==
    /\ InvDone /\ invResult.status = "ok"
    /\ \E k \in KeysIn(geminiConfigs(invConfigs.list)) :
          /\ invOracle[k]
          /\ k > invResult.text.key

\* C3: when every credential of every config fails, the call fails with
\* AllFailed carrying the last attempt's error, after as many attempts as the
\* list has credentials.
C3_AllFailAttemptsEveryCredential ==
    (/\ InvDone /\ Len(invConfigs.list) > 0 /\ AllSupported(invConfigs.list)
     /\ \A k \in KeysIn(invConfigs.list) : ~invOracle[k])
    => /\ invResult.status = "error"
       /\ invResult.error = "AllFailed"
       /\ Len(invResult.attempts) = Len(Flatten(invConfigs.list))
       /\ invResult.lastError = invResult.attempts[Len(invResult.attempts)].key

\* C4: with no config list, an empty list, or a list without a config of a
\* supported kind, the call fails with a no-provider error and attempts nothing.
C4_NoProviderAvailable ==
    (/\ invPc = "done"
     /\ \/ ~invConfigs.present
        \/ Len(invConfigs.list) = 0
        \/ \A i \in 1 .. Len(invConfigs.list) :
              invConfigs.list[i].type \notin SupportedKinds)
    => /\ invResult.status = "error"
       /\ invResult.error \in NoProviderAvailable
       /\ invResult.attempts = <<>>

\* C4 witness: a call on a non-empty list of configs of unrecognized type
C4_Witness ==
    /\ InvDone /\ Len(invConfigs.list) = 2
    /\ \A i \in 1 .. 2 : invConfigs.list[i].type = "other"
    /\ invResult.error = "NoGemini"

\* C5: a StandardChat config is attempted in its place: when the first config
\* is of type openai and its first credential succeeds, the call returns that
\* config's text after this one attempt.
C5_StandardChatIsAttempted ==
    (/\ InvDone /\ Len(invConfigs.list) > 0
     /\ invConfigs.list[1].type = "openai"
     /\ invOracle[invConfigs.list[1].keys[1]])
    => /\ invResult.status = "ok"
       /\ invResult.text.model = invConfigs.list[1].name
       /\ Len(invResult.attempts) = 1

TypeOfName(list, n) == (CHOOSE i \in 1 .. Len(list) : list[i].name = n)

\* a credential of a gemini config before position j succeeds
SuccessBefore(list, ok, j) ==
    \E i \in 1 .. j - 1 :
        /\ list[i].type = "gemini"
        /\ \E k \in 1 .. Len(list[i].keys) : ok[list[i].keys[k]]

CallItems == { calls[i].item : i \in 1 .. Len(calls) }

PostItems == { posts[i].item : i \in 1 .. Len(posts) }

MarkedComments ==
    { c \in DComments : "THUMBS_DOWN" \in cmtReactions[c] }
    \cup { p \in PComments : pcReactions[p] > 0 }

RunEnded == pc = "idle" /\ runs > 0

\* C7: a work item that carries the thumbs-down is passed over by the run: no
\* callLlmApi call and no post is made for it, and no loaded template comes
\* from a source that carries the thumbs-down.
C7_MarkedItemsAreSkipped ==
    /\ \A c \in MarkedComments : c \notin CallItems /\ c \notin PostItems
    /\ \A i \in 1 .. Len(promptTemplates) : srcReactions[promptTemplates[i].id] = 0

\* C7 witness: a run that passed over a marked comment and a marked template
\* source, and posted for another comment
C7_Witness ==
    /\ RunEnded
    /\ workflowType = "prompt-reply"
    /\ skipped # {} /\ posts # <<>>
    /\ srcReactions["t2"] > 0 /\ promptTemplates # <<>>

\* C8: when a run ends, a reaction-creation call was made for every work item
\* the run posted for without a failure, and for every template it used.
C8_ProcessedItemsAreMarked ==
    RunEnded =>
        /\ \A item \in DoneItems : item \in Range(markCalls)
        /\ \A id \in usedTemplateIds : id \in Range(markCalls)

\* C9: a run posts nothing for a work item that the previous run, which ended
\* without a failed marker write, posted for without a failure.
C9_NoRepostInNextRun ==
    pc # "idle" => \A item \in prevDone : item \notin PostItems

\* C10: a work item with a failure in this run gets no reaction from the run:
\* no reaction-creation call names it and it still carries no thumbs-down.
C10_FailedItemsStayUnmarked ==
    \A item \in failed :
        /\ item \notin Range(markCalls)
        /\ item \notin MarkedComments

\* C10 witness: a run ended with a comment for which one template was posted
\* and another failed
C10_Witness ==
    /\ RunEnded
    /\ \E item \in failed : item \in PostItems

(***************************************************************************)
(* Claims about the processing tracker (checked under SpecMark, SpecCheck) *)
(***************************************************************************)
\* the reaction-creation calls made for template sources
TemplateMarks == SelectSeq(mkCalls, LAMBDA m : m.id \in Range(TemplateSources))

Ids(marks) == [i \in 1 .. Len(marks) |-> marks[i].id]

C16_IsProcessedIsThumbsDown ==
    chkResult.done =>
        chkResult.value =
            IF chkItem.host = "issue"
            THEN chkItem.reactions.present /\ chkItem.reactions.minus1 > 0
            ELSE /\ chkItem.reactions.present
                 /\ chkItem.reactions.hasNodes
                 /\ "THUMBS_DOWN" \in chkItem.reactions.nodes

\* C16 witness: a discussion comment with a thumbs-up and a thumbs-down was
\* found processed
C16_Witness ==
    /\ chkResult.done /\ chkResult.value
    /\ chkItem.host = "discussion"
    /\ chkItem.reactions = Nodes({"THUMBS_UP", "THUMBS_DOWN"})

\* C17: for every markable item (discussion comment, template source from an
\* issue comment, template source from the issue body), once a marking call on
\* the item's stored id was made on a healthy platform the item fetched again
\* is found processed; an item that never carried the marker is found
\* unprocessed.
C17_MarkThenCheckRoundTrip ==
    mkPc = "checked" =>
        \A item \in MarkableItems :
            /\ (\E i \in 1 .. Len(mkCalls) : mkCalls[i].id = item /\ mkCalls[i].ok)
               => mkSeen[item]
            /\ item \notin mkBefore => ~mkSeen[item]

(***************************************************************************)
(* Claims about failures of a run (checked under Spec)                     *)
(***************************************************************************)
\* the failures that are not local to a work item
SharedFailures == {"InvalidRepo", "NoApiIssue", "NoTemplateIssue", "FetchFailed"}

\* the work items a run has to attempt
UnmarkedItems ==
    IF workflowType = "prompt-reply"
    THEN { c \in DComments : "THUMBS_DOWN" \notin cmtReactions[c] }
    ELSE { p \in PComments : pcReactions[p] = 0 /\ CommentPrompt(p) # "" }

\* callLlmApi was called for the item with every loaded template (with the
\* prompt of the item, in prompt-comment)
FullyAttempted(item) ==
    IF workflowType = "prompt-reply"
    THEN \A t \in 1 .. Len(promptTemplates) :
            \E i \in 1 .. Len(calls) :
                calls[i].item = item /\ calls[i].template = promptTemplates[t].id
    ELSE item \in CallItems

\* the download or the parse of the item's PDF failed
DownloadFailed(item) == HasPdf(item) /\ item \in failed /\ item \notin CallItems

\* C12: a failure of the provider call, the download or the post of one work
\* item is never given to core.setFailed, and a run that was not aborted by a
\* shared failure ends with every other unmarked item attempted with every
\* template.
C12_ItemFailureDoesNotAbort ==
    /\ failure # "" => failure \in SharedFailures
    /\ (RunEnded /\ failure = "") =>
          \A item \in UnmarkedItems : FullyAttempted(item) \/ DownloadFailed(item)

\* C12 witness: the first comment failed with a template and the run went on
\* to post for the second comment and ended without a failure message
C12_Witness ==
    /\ RunEnded /\ failure = ""
    /\ workflowType = "prompt-reply"
    /\ "c1" \in failed
    /\ "c2" \in PostItems

\* C13 (as claimed): with no valid provider config the run is reported failed
\* and no work item is processed: no callLlmApi call and no post.
C13_NoConfigAbortsRun ==
    (runs > 0 /\ apiConfigs = <<>>) =>
        /\ failure # ""
        /\ calls = <<>>
        /\ posts = <<>>

\* C13 (as the code behaves): with no valid provider config nothing is posted
\* and no network attempt is made, yet the run is not aborted for it: every
\* callLlmApi call fails with the no-config error, and a run that ends
\* without a shared failure has put every unmarked item among the failed.
C13_NoConfigFailsEachItem ==
    apiConfigs = <<>> =>
        /\ posts = <<>>
        /\ \A i \in 1 .. Len(calls) :
              calls[i].error = "NoConfigs" /\ calls[i].attempts = 0
        /\ failure # "" => failure \in SharedFailures
        /\ (RunEnded /\ failure = ""
            /\ (workflowType = "prompt-reply" => promptTemplates # <<>>))
           => UnmarkedItems \subseteq failed

\* C13 witness: a run without a config ended unaborted after two failed calls
C13_Witness ==
    /\ RunEnded /\ failure = ""
    /\ apiConfigs = <<>>
    /\ Len(calls) >= 2
    /\ failed # {}

\* C14: a run that finds the repository input without a '/', no issue
\* labelled api, or (prompt-reply) no issue labelled prompt+reply is over at
\* once: the message is given to core.setFailed and no callLlmApi call and no
\* post is made.
C14_MissingPreconditionAborts ==
    LET expected ==
            IF ~setup.repo THEN "InvalidRepo"
            ELSE IF ~setup.apiIssue THEN "NoApiIssue"
            ELSE IF workflowType = "prompt-reply" /\ ~setup.templateIssue
            THEN "NoTemplateIssue"
            ELSE ""
    IN  (runs > 0 /\ expected # "") =>
            /\ pc = "idle"
            /\ failure = expected
            /\ calls = <<>>
            /\ posts = <<>>
            /\ markCalls = <<>>

\* C14 witness: a prompt-reply run on a platform without a prompt+reply issue
C14_Witness ==
    /\ runs > 0
    /\ workflowType = "prompt-reply"
    /\ setup = [repo |-> TRUE, apiIssue |-> TRUE, templateIssue |-> FALSE]
    /\ failure = "NoTemplateIssue"

(***************************************************************************)
(* Claims about parseApiConfig (checked under SpecParse)                   *)
(***************************************************************************)
HasColon(line) == \E i \in 1 .. Len(line) : line[i] \in Colons

\* the text before the first colon, and the value after it: carriage returns
\* and surrounding white space removed, then one layer of matching quotes
KeyPart(line) == SubSeq(line, 1, FirstColon(line) - 1)

Unquoted(s) ==
    IF Len(s) >= 2 /\ Head(s) \in Quotes /\ s[Len(s)] = Head(s)
    THEN SubSeq(s, 2, Len(s) - 1)
    ELSE s

ValuePart(line) ==
    Unquoted(trimChars(removeCR(SubSeq(line, FirstColon(line) + 1, Len(line)))))

\* the field a line is for: the first of name, url, key, type that the
\* lower-cased text before the first colon contains
ChosenField(line) ==
    IF ~HasColon(line) THEN ""
    ELSE LET k == toLowerCase(KeyPart(line))
         IN  IF includes(k, Word_name) THEN "name"
             ELSE IF includes(k, Word_url) THEN "url"
             ELSE IF includes(k, Word_key) THEN "keys"
             ELSE IF includes(k, Word_type) THEN "type"
             ELSE ""

LinesFor(lines, field) == SelectSeq(lines, LAMBDA l : ChosenField(l) = field)

LastValue(lines, field, default) ==
    IF Len(LinesFor(lines, field)) = 0 THEN default
    ELSE ValuePart(LinesFor(lines, field)[Len(LinesFor(lines, field))])

\* the reference: last name line, last url line, every key line in order,
\* last type line lower-cased or 'openai'
Reference(text) ==
    LET lines == split(text, <<>>)
    IN  [name |-> LastValue(lines, "name", <<>>),
         url |-> LastValue(lines, "url", <<>>),
         keys |-> [i \in 1 .. Len(LinesFor(lines, "keys")) |->
                      ValuePart(LinesFor(lines, "keys")[i])],
         type |-> toLowerCase(LastValue(lines, "type", Word_openai))]

Returned == cfgResult[Len(split(cfgText, <<>>))]

\* C18: the config parseApiConfig returns is the reference config of the text.
C18_ParseEqualsReference ==
    cfgPc = "done" => Returned = Reference(cfgText)

ConfigFields == {"name", "url", "keys", "type"}

\* C19: a line changes no field but the one chosen by the precedence name,
\* url, key, type over the text before its first colon; and a line with a
\* colon and no carriage return sets exactly that field to its value (a key
\* line appends it).
C19_LineSetsOneFieldByPrecedence ==
    cfgPc = "done" =>
        LET lines == split(cfgText, <<>>)
        IN  \A i \in 1 .. Len(lines) :
               LET before == cfgResult[i - 1]
                   after == cfgResult[i]
                   chosen == ChosenField(lines[i])
               IN  /\ \A f \in ConfigFields : after[f] # before[f] => f = chosen
                   /\ (chosen # "" /\ \A j \in 1 .. Len(lines[i]) : lines[i][j] # "\r") =>
                         after[chosen] =
                            IF chosen = "keys" THEN Append(before.keys, ValuePart(lines[i]))
                            ELSE IF chosen = "type" THEN toLowerCase(ValuePart(lines[i]))
                            ELSE ValuePart(lines[i])

\* C19 witness: the line 'keyname: K3' set the name and appended no credential,
\* and a line whose value holds 'key' changed nothing
C19_Witness ==
    /\ cfgPc = "done"
    /\ split(cfgText, <<>>) = <<Line_keyname, Line_note>>
    /\ Returned.name = <<"K", "3">>
    /\ Returned.keys = <<>>

(***************************************************************************)
(* Claims about extractApiConfigs (checked under SpecExtract)              *)
(***************************************************************************)
\* valid as the design has it: a name, a credential, and an endpoint when the
\* kind is the one that needs it (StandardChat, 'openai')
ValidByKind(config) ==
    /\ config.name # <<>>
    /\ Len(config.keys) > 0
    /\ config.type = Word_openai => config.url # <<>>

\* a name, an endpoint and a credential, whatever the kind
HasNameUrlKey(config) ==
    /\ config.name # <<>>
    /\ config.url # <<>>
    /\ Len(config.keys) > 0

Extracted(config) == \E i \in 1 .. Len(exResult) : exResult[i] = config

\* the comments that do not carry the thumbs-down
OpenComments == { i \in 1 .. Len(exComments) : exComments[i].reactions.minus1 = 0 }

\* C20 (as claimed): the config of a comment is kept if and only if it has a
\* name, a credential, and an endpoint when its kind needs one; a gemini
\* config without a url is kept.
C20_KeepsIffValidByKind ==
    exPc = "done" =>
        /\ \A i \in OpenComments :
              Extracted(Reference(exComments[i].body)) <=>
                  ValidByKind(Reference(exComments[i].body))
        /\ \A i \in 1 .. Len(exResult) : ValidByKind(exResult[i])

\* C20 (as the code behaves): the config of a comment is kept if and only if
\* it has a name, a url and a credential, whatever its kind; a gemini config
\* without a url is dropped.
C20_KeepsIffNameUrlKey ==
    exPc = "done" =>
        /\ \A i \in OpenComments :
              Extracted(Reference(exComments[i].body)) <=>
                  HasNameUrlKey(Reference(exComments[i].body))
        /\ \A i \in 1 .. Len(exResult) : HasNameUrlKey(exResult[i])

\* C20 witness: a gemini config without a url was dropped next to a config
\* that was kept
C20_Witness ==
    /\ exPc = "done"
    /\ \E i \in OpenComments :
          /\ exComments[i].body = Body_geminiNoUrl
          /\ ~Extracted(Reference(Body_geminiNoUrl))
    /\ Len(exResult) > 0

(***************************************************************************)
(* Claims about the order of extractApiConfigs (checked under SpecExtract) *)
(***************************************************************************)
\* the comments whose config is returned: no thumbs-down, and a config that
\* passes the validity test
KeptComments == { i \in OpenComments : keeps(parseApiConfig(exComments[i].body)) }

\* the ways of naming, for each place of the result, the comment it came from:
\* every kept comment once, an older comment before a newer one
Origins ==
    { f \in [1 .. Len(exResult) -> KeptComments] :
        /\ \A k, l \in 1 .. Len(exResult) : k # l => f[k] # f[l]
        /\ \A k \in 1 .. Len(exResult) :
              exResult[k] = parseApiConfig(exComments[f[k]].body)
        /\ \A k, l \in 1 .. Len(exResult) :
              k < l => exComments[f[k]].created_at <= exComments[f[l]].created_at }

\* C21: the configs returned by extractApiConfigs are those of the comments
\* without a thumbs-down that pass the validity test, one per comment, ordered
\* by the creation time of their comments, oldest first, whatever the order of
\* the input list; no config comes from a comment that carries a thumbs-down.
C21_OldestFirstWithoutMarked ==
    exPc = "done" =>
        /\ Len(exResult) = Cardinality(KeptComments)
        /\ Origins # {}

\* C21 witness: the input list has the newer comment first, both configs are
\* returned, and the older comment's config is first
C21_Witness ==
    /\ exPc = "done"
    /\ Len(exComments) = 2
    /\ exComments[1].created_at > exComments[2].created_at
    /\ exComments[1].body # exComments[2].body
    /\ Len(exResult) = 2
    /\ exResult[1] = parseApiConfig(exComments[2].body)

(***************************************************************************)
(* Claims about extractPrompt (checked under SpecPrompt)                   *)
(***************************************************************************)
\* the places of the text where a token of one or more \w characters
\* followed by 'Prompt' ends right at the start of the text and is followed
\* by a colon
TokenEnds(body) ==
    { k \in 1 .. Len(body) - 1 :
        /\ \A i \in 1 .. k : body[i] \in WordChars
        /\ k >= Len(Word_Prompt) + 1
        /\ SubSeq(body, k - Len(Word_Prompt) + 1, k) = Word_Prompt
        /\ body[k + 1] \in Colons }

\* the text without the white space at its two ends
Trimmed(s) ==
    IF \A i \in 1 .. Len(s) : s[i] \in WhiteSpace THEN <<>>
    ELSE LET first == CHOOSE i \in 1 .. Len(s) :
                          /\ s[i] \notin WhiteSpace
                          /\ \A j \in 1 .. i - 1 : s[j] \in WhiteSpace
             last == CHOOSE i \in 1 .. Len(s) :
                          /\ s[i] \notin WhiteSpace
                          /\ \A j \in i + 1 .. Len(s) : s[j] \in WhiteSpace
         IN  SubSeq(s, first, last)

\* C22: extractPrompt returns a record exactly when the text begins, at its
\* first character, with one or more word characters followed by 'Prompt' and
\* then at once an ASCII or full-width colon; the kind is that token and the
\* content is all the rest, line ends included, trimmed; any other text gives
\* null.  'SummaryPrompt: hello' gives {SummaryPrompt, 'hello'}, 'FooPrompt:'
\* gives {FooPrompt, ''}, 'hello SummaryPrompt: x' gives null.
C22_AnchoredTokenAndTrimmedRest ==
    epPc = "done" =>
        /\ epResult.matched <=> TokenEnds(epBody) # {}
        /\ \A k \in TokenEnds(epBody) :
              /\ epResult.type = SubSeq(epBody, 1, k)
              /\ epResult.content = Trimmed(SubSeq(epBody, k + 2, Len(epBody)))
        /\ ~epResult.matched => epResult = NoPrompt
        /\ epBody = Token_SummaryPrompt \o <<":">> \o Content_hello =>
              epResult = [matched |-> TRUE, type |-> Token_SummaryPrompt,
                          content |-> Text_hello]
        /\ epBody = Token_FooPrompt \o <<":">> =>
              epResult = [matched |-> TRUE, type |-> Token_FooPrompt,
                          content |-> <<>>]
        /\ epBody = Text_helloSpace \o Token_SummaryPrompt \o <<":">> \o Content_hello =>
              epResult = NoPrompt

\* C22 witness: a text with a full-width colon and a rest of two lines gave a
\* record whose content is the rest without the blanks at its ends
C22_Witness ==
    /\ epPc = "done"
    /\ epBody = Token_My_2Prompt \o <<FullWidthColon>> \o Content_twoLines
    /\ epResult.matched
    /\ epResult.type = Token_My_2Prompt
    /\ Len(epResult.content) = Len(Content_twoLines) - 2
    /\ "\n" \in { epResult.content[i] : i \in 1 .. Len(epResult.content) }

(***************************************************************************)
(* Claims about fillTemplate (checked under SpecFill)                      *)
(***************************************************************************)
\* the places where a text occurs in another
Occurrences(s, w) ==
    { i \in 1 .. Len(s) - Len(w) + 1 : SubSeq(s, i, i + Len(w) - 1) = w }

First(S) == CHOOSE i \in S : \A j \in S : i <= j

\* the template up to its first placeholder, and from the end of it
BeforeFirst(template) ==
    SubSeq(template, 1, First(Occurrences(template, Placeholder)) - 1)

AfterFirst(template) ==
    SubSeq(template, First(Occurrences(template, Placeholder)) + Len(Placeholder),
           Len(template))

\* C23 (as claimed): the placeholder is the token {{article}}:
\* fillTemplate('Summarize: {{article}}', 'X') returns 'Summarize: X'.
C23_RecognisesArticleToken ==
    (ftPc = "done" /\ ftTemplate = Template_article /\ ftContent = Content_X) =>
        ftResult = Word_Summarize \o <<":", " ">> \o Content_X

\* C23 (as the code behaves): the placeholder is the token {{文章}}:
\* fillTemplate('Summarize: {{文章}}', 'X') returns 'Summarize: X', while
\* {{article}} is ordinary text, so that fillTemplate('Summarize: {{article}}',
\* 'X') returns 'Summarize: {{article}} X'.
C23_RecognisesCodeToken ==
    ftPc = "done" /\ ftContent = Content_X =>
        /\ ftTemplate = Template_placeholder =>
              ftResult = Word_Summarize \o <<":", " ">> \o Content_X
        /\ ftTemplate = Template_article =>
              ftResult = Template_article \o <<" ">> \o Content_X

\* C23 witness: the template with {{article}} was filled and still holds the
\* token
C23_Witness ==
    /\ ftPc = "done"
    /\ ftTemplate = Template_article
    /\ ftContent = Content_X
    /\ Occurrences(ftResult, PlaceholderArticle) # {}

\* C24: only the first placeholder is replaced: the result of a template with
\* two placeholders starts with the text before the first and ends with the
\* text after the first, the second placeholder in it; the result of a
\* template without a placeholder is the template, one space, the content
\* (fill('Summarize', 'X') = 'Summarize X').
C24_FirstOccurrenceOnly ==
    ftPc = "done" =>
        /\ Cardinality(Occurrences(ftTemplate, Placeholder)) >= 2 =>
              LET after == AfterFirst(ftTemplate)
                  before == BeforeFirst(ftTemplate)
              IN  /\ Len(ftResult) >= Len(before) + Len(after)
                  /\ SubSeq(ftResult, 1, Len(before)) = before
                  /\ SubSeq(ftResult, Len(ftResult) - Len(after) + 1, Len(ftResult))
                        = after
                  /\ Occurrences(after, Placeholder) # {}
        /\ Occurrences(ftTemplate, Placeholder) = {} =>
              ftResult = ftTemplate \o <<" ">> \o ftContent

\* C25: for every template and every content the result is the template with
\* the content, as it is, in the place of the first placeholder, or the
\* template, one space and the content when the template has no placeholder.
C25_ContentVerbatimOnce ==
    ftPc = "done" =>
        IF Occurrences(ftTemplate, Placeholder) = {}
        THEN ftResult = ftTemplate \o <<" ">> \o ftContent
        ELSE ftResult = BeforeFirst(ftTemplate) \o ftContent \o AfterFirst(ftTemplate)

(***************************************************************************)
(* Claims about the response of an attempt (checked under SpecResponse)    *)
(***************************************************************************)
HasCandidates(apiResponse) ==
    apiResponse.candidates.present /\ Len(apiResponse.candidates.list) > 0

HasChoices(apiResponse) ==
    apiResponse.choices.present /\ Len(apiResponse.choices.list) > 0

\* a field that is there with a text in it
Present(v) == v.present /\ v.value # ""

\* C26: for a gemini config, a 2xx response without candidates is a failed
\* attempt: it is recorded as the last error and the attempt returns nothing,
\* so that callLlmApi goes on with the next credential or config; no result,
\* such as the stringified raw response, is returned for it.
C26_NoCandidatesIsFailedAttempt ==
    (gtPc = "done" /\ gtType = "gemini" /\ ~HasCandidates(gtResponse)) =>
        /\ ~gtResult.returned
        /\ gtResult.lastError # ""

\* C27: for a response of the default kind the text is the first choice's
\* message content, else its text field; when neither is there (no choices,
\* or a first choice with neither field) the result is the stringified raw
\* response; the attempt always returns.
C27_ContentElseTextElseRaw ==
    (gtPc = "done" /\ gtType = "openai") =>
        /\ gtResult.returned
        /\ LET first == gtResponse.choices.list[1]
           IN  IF HasChoices(gtResponse) /\ first.object /\ Present(first.content)
               THEN gtResult.result = Text(first.content.value)
               ELSE IF HasChoices(gtResponse) /\ first.object /\ Present(first.text)
               THEN gtResult.result = Text(first.text.value)
               ELSE gtResult.result = Stringified(gtResponse)

(***************************************************************************)
(* Claims about the replies of a prompt-reply run (checked under Spec)     *)
(***************************************************************************)
\* the replies of this run for a comment and a template
RepliesFor(item, template) ==
    { i \in 1 .. Len(posts) : posts[i].item = item /\ posts[i].template = template }

\* the times this run applied a template to a comment
CallsFor(item, template) ==
    { i \in 1 .. Len(calls) : calls[i].item = item /\ calls[i].template = template }

\* the comments the platform holds without the thumbs-down
OpenDiscussionComments == { c \in DComments : "THUMBS_DOWN" \notin cmtReactions[c] }

C29_ReplyTargetsCommentWithText ==
    workflowType = "prompt-reply" =>
        \A i \in 1 .. Len(posts) :
            /\ posts[i].input.commentId = IdArg(posts[i].item)
            /\ posts[i].input.body = TextArg(posts[i].arg3)

(***************************************************************************)
(* Claims about the triggers (checked under SpecTriggers)                  *)
(***************************************************************************)
Running(r) == trPc[r] \in {"comments", "templates"}

\* the run has read the comment as unmarked and has not finished it
Processing(r, c) ==
    /\ trPc[r] = "templates"
    /\ TriggerComments[trIdx[r]] = c

\* C30: the runs of the two triggers never overlap, so that no run reads a
\* comment as unmarked while the other run is between reading its marker and
\* finishing it.
C30_NoOverlappingRuns ==
    \A r1, r2 \in Triggers :
        r1 # r2 =>
            /\ ~(Running(r1) /\ Running(r2))
            /\ \A c \in DComments : ~(Processing(r1, c) /\ Processing(r2, c))

(***************************************************************************)
(* Claims about the request of an attempt (checked under SpecRequest)      *)
(***************************************************************************)
\* the value of a character of the base64 alphabet
Base64Value(ch) == (CHOOSE i \in 1 .. 64 : Base64Chars[i] = ch) - 1

RECURSIVE FromBase64(_)
\* the bytes a base64 text stands for
FromBase64(data) ==
    IF Len(data) < 4 THEN <<>>
    ELSE LET a == Base64Value(data[1])
             b == Base64Value(data[2])
         IN  IF data[3] = "=" THEN <<(a * 4) + (b \div 16)>>
             ELSE LET c == Base64Value(data[3])
                  IN  IF data[4] = "="
                      THEN <<(a * 4) + (b \div 16), ((b % 16) * 16) + (c \div 4)>>
                      ELSE <<(a * 4) + (b \div 16), ((b % 16) * 16) + (c \div 4),
                             ((c % 4) * 64) + Base64Value(data[4])>>
                           \o FromBase64(SubSeq(data, 5, Len(data)))

\* an attachment is supplied: bytes together with their mime type
AttachmentSupplied ==
    rqFileBuffer.present /\ rqMimeType.present /\ rqMimeType.value # ""

PartsOfKind(parts, kind) == { i \in 1 .. Len(parts) : parts[i].kind = kind }

\* C31: the request has exactly one turn, of role user; its parts hold exactly
\* one text part, which carries the prompt, and exactly one inline-data part
\* (the base64 text of the bytes, and the mime type) if and only if an
\* attachment is supplied; without an attachment the text part is the only part.
C31_OneUserTurnTextAndAttachment ==
    rqPc = "done" =>
        /\ Len(rqRequest.contents) = 1
        /\ rqRequest.contents[1].role = "user"
        /\ LET parts == rqRequest.contents[1].parts
               inline == PartsOfKind(parts, "inlineData")
           IN  /\ Cardinality(PartsOfKind(parts, "text")) = 1
               /\ \A i \in PartsOfKind(parts, "text") : parts[i].text = rqPrompt
               /\ Cardinality(inline) = IF AttachmentSupplied THEN 1 ELSE 0
               /\ Len(parts) = IF AttachmentSupplied THEN 2 ELSE 1
               /\ \A i \in inline :
                     /\ FromBase64(parts[i].data) = rqFileBuffer.list
                     /\ Len(parts[i].data) = 4 * ((Len(rqFileBuffer.list) + 2) \div 3)
                     /\ parts[i].mimeType = rqMimeType.value

\* C31 witness: a request built for a prompt and a file of two bytes with its
\* mime type, which carries the inline-data part
C31_Witness ==
    /\ rqPc = "done"
    /\ AttachmentSupplied
    /\ rqFileBuffer.list = <<77, 255>>
    /\ rqPrompt # ""
    /\ Len(rqRequest.contents[1].parts) = 2
    /\ rqRequest.contents[1].parts[2].data = <<"T", "f", "8", "=">>

(***************************************************************************)
(* More claims about parseApiConfig (checked under SpecParse)              *)
(***************************************************************************)
\* a line the parser can use: it has a colon, and the text before its first
\* colon holds one of name, url, key, type
Usable(line) == ChosenField(line) # ""

\* C32: parseApiConfig returns a config for every text (the loop reaches the
\* last line and nothing is raised); a line without a colon, or whose key holds
\* none of name, url, key, type, leaves every field as it was; and a text with
\* no usable line gives {name: '', url: '', keys: [], type: 'openai'}.
C32_NeverRaisesAndSkipsUnusableLines ==
    cfgPc = "done" =>
        LET lines == split(cfgText, <<>>)
        IN  /\ DOMAIN cfgResult = 0 .. Len(lines)
            /\ DOMAIN Returned = ConfigFields
            /\ \A i \in 1 .. Len(lines) :
                  ~Usable(lines[i]) => cfgResult[i] = cfgResult[i - 1]
            /\ (\A i \in 1 .. Len(lines) : ~Usable(lines[i])) =>
                  Returned = [name |-> <<>>, url |-> <<>>, keys |-> <<>>,
                              type |-> Word_openai]

\* C32 witness: a text of a line without a colon and a line whose key is
\* 'note' was parsed, and a config came back
C32_Witness ==
    /\ cfgPc = "done"
    /\ split(cfgText, <<>>) = <<Line_noColon, Line_note>>
    /\ Returned = EmptyConfig

(***************************************************************************)
(* More claims about the workflows (checked under Spec)                    *)
(***************************************************************************)
\* the templates a reply of this run was posted with
PostedTemplates == { posts[i].template : i \in 1 .. Len(posts) }

\* C33: the used-template-id set of a prompt-reply run holds only ids of
\* templates a reply of this run was posted with; a step inside a run only adds
\* ids to it, and the step that starts a run leaves it empty.
C33_UsedIdsAppendOnlyAndPosted ==
    /\ [](workflowType = "prompt-reply" => usedTemplateIds \subseteq PostedTemplates)
    /\ [][IF runs' # runs THEN usedTemplateIds' = {}
          ELSE usedTemplateIds \subseteq usedTemplateIds']_vars

\* C33 witness: the second run has ended with ids in the set, after a post of it
\* was rejected
C33_Witness ==
    /\ workflowType = "prompt-reply"
    /\ runs = 2 /\ pc = "idle"
    /\ usedTemplateIds # {}
    /\ \E i \in 1 .. Len(calls) : calls[i].post = "rejected"

(***************************************************************************)
(* Claims about the config list (checked under SpecConfigs)                *)
(***************************************************************************)
\* C34: no step changes a config list that exists: not the list a run got from
\* getApiConfigs, not the list handed to a direct call of callLlmApi, not the
\* list extractApiConfigs has returned; and extractApiConfigs leaves the
\* comment list it was handed as it was, in order and content.
C34_ConfigListIsImmutable ==
    [][/\ apiConfigs' = apiConfigs
       /\ invConfigs' = invConfigs
       /\ exComments' = exComments
       /\ exPc = "done" => exResult' = exResult]_vars

\* C34 witness: two comments were handed over newest first, and both configs
\* were extracted
C34_Witness ==
    /\ exPc = "done"
    /\ Len(exComments) = 2
    /\ exComments[1].created_at > exComments[2].created_at
    /\ Len(exResult) = 2

\* C34 witness of the runs: a run has called callLlmApi twice with a list of
\* two configs
C34_WitnessRun ==
    /\ Len(apiConfigs) = 2
    /\ Len(calls) >= 2

(***************************************************************************)
(* More claims about callLlmApi (checked under SpecInvoke)                 *)
(***************************************************************************)
\* the place of an attempt among the credentials of the list, 0 when it is
\* none of them
PositionOf(tried, list) ==
    IF \E p \in 1 .. Len(Flatten(list)) : Flatten(list)[p] = tried
    THEN CHOOSE p \in 1 .. Len(Flatten(list)) : Flatten(list)[p] = tried
    ELSE 0

\* C35: a call ends with a text or with an error, every attempt of it is made
\* at a (config, credential) position of the list, the positions attempted go
\* strictly forward (none twice, no wrap-around), and so the call makes at most
\* as many attempts as the list has credentials.
C35_BoundedAttempts ==
    InvDone =>
        LET done == Attempted(invResult)
            list == invConfigs.list
        IN  /\ invResult.status \in {"ok", "error"}
            /\ invResult.status = "ok" <=> invResult.text # NoText
            /\ invResult.status = "error" <=> invResult.error # ""
            /\ \A i \in 1 .. Len(done) : PositionOf(done[i], list) > 0
            /\ \A i \in 1 .. Len(done) : \A j \in 1 .. Len(done) :
                  i < j => PositionOf(done[i], list) < PositionOf(done[j], list)
            /\ Len(done) <= Len(Flatten(list))

\* C35 witness: every credential of a list of two configs with two credentials
\* each threw, and the call ended with an error after four attempts
C35_Witness ==
    /\ InvDone
    /\ Len(invConfigs.list) = 2
    /\ Len(Flatten(invConfigs.list)) = 4
    /\ invResult.status = "error"
    /\ Len(invResult.attempts) = 4

\* the posts and the successful invocations of a run for a work item and a
\* template ("" in prompt-comment, which has none)
PostsOf(item, template) ==
    { i \in 1 .. Len(posts) : posts[i].item = item /\ posts[i].template = template }

ReturnedFor(item, template) ==
    { i \in 1 .. Len(calls) :
         /\ calls[i].item = item /\ calls[i].template = template
         /\ calls[i].error = "" }

\* what was posted is the text an invocation for the pair returned, trimmed
PostedAfterReturn(i) ==
    \E j \in ReturnedFor(posts[i].item, posts[i].template) :
        posts[i].input.body = TextArg(trim(calls[j].text))

\* C36: every reply or comment a run has posted belongs to an invocation of
\* the same run for the same work item and template that returned a text, its
\* body is that text trimmed, and a pair has no more posts than invocations
\* that returned (none when its invocation failed).
C36_PostOnlyReturnedTextTrimmed ==
    \A i \in 1 .. Len(posts) :
        /\ PostedAfterReturn(i)
        /\ Cardinality(PostsOf(posts[i].item, posts[i].template))
              <= Cardinality(ReturnedFor(posts[i].item, posts[i].template))

\* the places of the template sources (the issue body first, then the
\* comments) that carry no thumbs-down and hold a prompt of the kind
UnmarkedSourcesOf(kind) ==
    { s \in 1 .. Len(TemplateSources) :
         /\ srcReactions[TemplateSources[s]] = 0
         /\ SourcePrompt(TemplateSources[s]) = kind }

LoadedKinds == { promptTemplates[i].type : i \in 1 .. Len(promptTemplates) }

Max(S) == CHOOSE x \in S : \A y \in S : y <= x

\* C37: the templates a prompt-reply run has loaded hold each kind at most
\* once; a kind is loaded exactly when an unmarked source yields it, with the
\* id of the last such source in the order issue body, comments; and the run
\* posts at most one reply per comment and kind.
C37_OneTemplatePerKindLastWins ==
    (workflowType = "prompt-reply" /\ runs > 0 /\ setup = SetupOk) =>
        /\ \A i \in 1 .. Len(promptTemplates) : \A j \in 1 .. Len(promptTemplates) :
              promptTemplates[i].type = promptTemplates[j].type => i = j
        /\ LoadedKinds = { k \in {"SummaryPrompt", "ReviewPrompt"} :
                              UnmarkedSourcesOf(k) # {} }
        /\ \A i \in 1 .. Len(promptTemplates) :
              promptTemplates[i].id =
                  TemplateSources[Max(UnmarkedSourcesOf(promptTemplates[i].type))]
        /\ \A i \in 1 .. Len(posts) : \A j \in 1 .. Len(posts) :
              (/\ posts[i].item = posts[j].item
               /\ SourcePrompt(posts[i].template) = SourcePrompt(posts[j].template))
              => i = j

\* C37 witness: the issue body and a comment both hold an unmarked summary
\* prompt, the comment's one is loaded, and a run has posted one reply with it
\* and one with the review prompt for a comment
C37_Witness ==
    /\ workflowType = "prompt-reply" /\ setup = SetupOk
    /\ UnmarkedSourcesOf("SummaryPrompt") = {1, 3}
    /\ \E i \in 1 .. Len(promptTemplates) :
          promptTemplates[i] = [type |-> "SummaryPrompt", id |-> "t2"]
    /\ \E i \in 1 .. Len(posts) : \E j \in 1 .. Len(posts) :
          /\ posts[i].item = posts[j].item
          /\ posts[i].template = "t2" /\ posts[j].template = "t1"

(***************************************************************************)
(* More claims about extractApiConfigs (checked under SpecExtract)         *)
(***************************************************************************)
\* C38: every credential of every config extractApiConfigs returns is a
\* non-empty text.
C38_NoEmptyCredential ==
    exPc = "done" =>
        \A i \in 1 .. Len(exResult) : \A j \in 1 .. Len(exResult[i].keys) :
            exResult[i].keys[j] # <<>>

\* the invocations of a prompt-comment run after which a discussion was created
Creations == { i \in 1 .. Len(calls) : calls[i].created }

\* C39: with a listing that shows every discussion there is, a prompt-comment
\* run creates at most one discussion of the issue's title, and none once a
\* discussion of the title exists: there is never more than one, and after a
\* comment whose text was posted into the discussion (found or created), no
\* later comment of the run creates one.
C39_OneDiscussionPerTitle ==
    workflowType = "prompt-comment" =>
        /\ titled <= 1
        /\ Cardinality(Creations) <= 1
        /\ \A i \in 1 .. Len(calls) : \A j \in 1 .. Len(calls) :
              (i < j /\ (calls[i].created \/ calls[i].post # "none"))
              => ~calls[j].created

\* C39 witness: the first comment of a run created the discussion and the
\* second comment posted into it
C39_Witness ==
    /\ workflowType = "prompt-comment"
    /\ Len(calls) = 2
    /\ calls[1].created /\ calls[1].post = "accepted"
    /\ ~calls[2].created /\ calls[2].post = "accepted"
    /\ Len(posts) = 2
    /\ titled = 1

(***************************************************************************)
(* Claims about retry (checked under SpecRetry)                            *)
(***************************************************************************)
\* the arguments of the call, with the defaults of the parameters left out
MaxRetriesOfCall == Default(rtMaxRetries, DefaultMaxRetries)

InitialDelayOfCall == Default(rtInitialDelay, DefaultInitialDelay)

RECURSIVE Doubled(_, _)
\* d doubled n times
Doubled(d, n) == IF n = 0 THEN d ELSE 2 * Doubled(d, n - 1)

\* the calls of fn made so far that rejected
Rejected == { k \in 1 .. Len(rtCalls) : ~rtFn[k] }

\* C40: retry calls fn at most maxRetries times; it returns the value of the
\* first call that resolves and calls fn no more; after the i-th failure (i
\* from 0) it waits initialDelay * 2^i; and when maxRetries calls have all
\* failed it throws the error of the last of them.
C40_RetryCallsWaitsAndOutcome ==
    /\ Len(rtCalls) <= MaxRetriesOfCall
    /\ \A k \in 1 .. Len(rtCalls) : rtFn[k] => (k = Len(rtCalls) /\ rtPc = "returned")
    /\ rtPc = "returned" =>
          /\ Len(rtCalls) > 0
          /\ rtFn[Len(rtCalls)]
          /\ rtResult = [status |-> "returned", value |-> Len(rtCalls)]
    /\ Len(rtSleeps) = IF rtPc = "caught" THEN Cardinality(Rejected) - 1
                       ELSE Cardinality(Rejected)
    /\ \A i \in 0 .. Len(rtSleeps) - 1 :
          rtSleeps[i + 1] = Doubled(InitialDelayOfCall, i)
    /\ (rtPc = "thrown" /\ MaxRetriesOfCall > 0) =>
          /\ Len(rtCalls) = MaxRetriesOfCall
          /\ Rejected = 1 .. MaxRetriesOfCall
          /\ rtResult = [status |-> "thrown", value |-> Rejection(MaxRetriesOfCall)]

\* C40 witness: the third call of fn resolved after waits of 500 and 1000, and
\* retry returned its value
C40_Witness ==
    /\ rtPc = "returned"
    /\ rtMaxRetries = Given(3) /\ rtInitialDelay = Given(500)
    /\ rtCalls = <<1, 2, 3>>
    /\ rtSleeps = <<500, 1000>>
    /\ rtResult.value = 3

\* C40 witness of the failure: three calls failed, retry waited 1000, 2000 and
\* 4000 and threw the third error
C40_WitnessThrown ==
    /\ rtPc = "thrown"
    /\ rtMaxRetries = NotGiven /\ rtInitialDelay = NotGiven
    /\ rtCalls = <<1, 2, 3>>
    /\ rtSleeps = <<1000, 2000, 4000>>
    /\ rtResult = ThrownLast(3)

=============================================================================
